---- MODULE Spec2Model ----
(***************************************************************************)
(* Dining concierge: the Lex code hook (LF1), the Queue Worker (LF2) and   *)
(* the work queue between them.                                            *)
(*                                                                         *)
(* One invocation of the LF2 handler is a small process: every `await` of  *)
(* the handler is a point where other invocations and the queue may act.   *)
(* Every outcome of an awaited call (returns / raises) is its own action.  *)
(***************************************************************************)
EXTENDS Integers, Sequences, FiniteSets, TLC

\* ------------------------------------------------------------------ bounds
MaxWorkers == 2        \* invocation slots that may overlap
MaxMsgs == 1           \* WorkItems ever placed on the queue
MaxHits == 4           \* longest hit list the search index returns
MaxMissing == 1        \* restaurant ids whose record is missing or blank
MaxAttempts == 2       \* notification attempts counted per WorkItem
MaxTurns == 8          \* turns of one conversation that Lex feeds back

\* ------------------------------------------------------- program constants
PickCount == 3         \* getRandomItems(restaurantIds, 3)
SearchSize == 50       \* query.size
MaxParty == 20         \* num > 20
MaxDaysAhead == 90     \* maxFuture.getDate() + 90
OpenHour == 6          \* hours < 6
CloseHour == 23        \* hours > 23

Workers == 1..MaxWorkers
MsgIds == 1..MaxMsgs
OverlapItems == {1, 2}
DialogItems == {1}
IDs == 1..MaxHits
NoMsg == 0

Min(a, b) == IF a < b THEN a ELSE b

\* --------------------------------------------------------------- payloads
\* A message body is either the JSON text of a DiningRequest (only Cuisine is
\* read by the control flow of LF2) or text that JSON.parse rejects.
Cuisines == {"thai", "Thai"}
Malformed == "<malformed>"
NoBody == "<none>"
Bodies == Cuisines \cup {Malformed}

\* String.prototype.toLowerCase on the cuisines of the model.
toLowerCase(c) == IF c = "Thai" THEN "thai" ELSE c

\* JSON.parse(message.Body): TRUE when it returns.
Parses(b) == b \in Cuisines

\* --------------------------------------------------------- search index
\* Hit lists, up to renaming of ids: <<1..n>>, or the same list with its last
\* hit repeating the id of the first (two index documents of one restaurant).
HitList(n, dup) ==
    [i \in 1..n |-> IF dup /\ i = n /\ n > 1 THEN 1 ELSE i]

HitLists(maxLen) == {HitList(n, d) : n \in 0..maxLen, d \in BOOLEAN}

\* The index answers with no hit or with a single hit.
ShortHitLists == {<<>>, HitList(1, FALSE)}

\* result.hits.hits.map(hit => hit._source.RestaurantID), at most `size` hits.
SearchHits(idx, cuisine) ==
    LET all == idx[toLowerCase(cuisine)]
    IN  SubSeq(all, 1, Min(Len(all), SearchSize))

\* ---------------------------------------------------------- record store
\* A DynamoDB item is absent, present with every attribute, or present with
\* none of the attributes the worker reads.
ItemKinds == {"absent", "full", "blank"}

Stores ==
    {[id \in IDs |-> IF id <= k THEN kind ELSE "full"] :
        k \in 0..MaxMissing, kind \in {"absent", "blank"}}

Placeholder == [name |-> "Unknown Restaurant", address |-> "Address not available"]

\* Mutant: no `if (!result.Item)` guard, the defaults are applied to nothing.
getRestaurantFromDynamoDBMut(st, businessId) ==
    IF st[businessId] = "full"
        THEN [name |-> "R" \o ToString(businessId),
              address |-> "A" \o ToString(businessId),
              rating |-> "4.5", numberOfReviews |-> "10", zipCode |-> "10001"]
        ELSE [name |-> "Unknown Restaurant", address |-> "Address not available",
              rating |-> "N/A", numberOfReviews |-> "N/A", zipCode |-> ""]

\* getRestaurantFromDynamoDB, once GetItem has returned.
getRestaurantFromDynamoDB(st, businessId) ==
    CASE st[businessId] = "absent" -> Placeholder
      [] st[businessId] = "full" ->
            [name |-> "R" \o ToString(businessId),
             address |-> "A" \o ToString(businessId),
             rating |-> "4.5", numberOfReviews |-> "10", zipCode |-> "10001"]
      [] OTHER ->
            [name |-> "Unknown Restaurant", address |-> "Address not available",
             rating |-> "N/A", numberOfReviews |-> "N/A", zipCode |-> ""]

\* ------------------------------------------------------ random selection
Injections(k, n) ==
    {f \in [1..k -> 1..n] : \A i, j \in 1..k : i # j => f[i] # f[j]}

\* [...array].sort(() => 0.5 - Math.random()): some permutation of array.
Shuffles(array) ==
    {[i \in 1..Len(array) |-> array[p[i]]] : p \in Injections(Len(array), Len(array))}

\* Mutant: n independent random picks (the same position may be picked twice).
getRandomItemsMut(array, n) ==
    {[i \in 1..Min(n, Len(array)) |-> array[p[i]]] :
        p \in [1..Min(n, Len(array)) -> 1..Len(array)]}

\* getRandomItems(array, n): the results it can return.
getRandomItems(array, n) ==
    {SubSeq(s, 1, Min(n, Len(s))) : s \in Shuffles(array)}

\* ================================================= LF1: strings and values
\* A JavaScript string is the sequence of its characters, so that case
\* folding, trimming, parseInt and the regular expressions of LF1 are
\* computed on the text itself.
UpperCase == <<"A", "B", "C", "D", "E", "F", "G", "H", "I", "J", "K", "L", "M", "N", "O", "P", "Q", "R", "S", "T", "U", "V", "W", "X", "Y", "Z">>
LowerCase == <<"a", "b", "c", "d", "e", "f", "g", "h", "i", "j", "k", "l", "m", "n", "o", "p", "q", "r", "s", "t", "u", "v", "w", "x", "y", "z">>
Digits == <<"0", "1", "2", "3", "4", "5", "6", "7", "8", "9">>

IsSpace(c) == c \in {" ", "\t", "\n"}

IsDigit(c) == \E i \in 1..10 : Digits[i] = c

DigitValue(c) == (CHOOSE i \in 1..10 : Digits[i] = c) - 1

LowerChar(c) ==
    IF \E i \in 1..26 : UpperCase[i] = c
        THEN LowerCase[CHOOSE i \in 1..26 : UpperCase[i] = c]
        ELSE c

UpperChar(c) ==
    IF \E i \in 1..26 : LowerCase[i] = c
        THEN UpperCase[CHOOSE i \in 1..26 : LowerCase[i] = c]
        ELSE c

\* String.prototype.toLowerCase / toUpperCase
LowerOf(s) == [i \in 1..Len(s) |-> LowerChar(s[i])]

UpperOf(s) == [i \in 1..Len(s) |-> UpperChar(s[i])]

\* String.prototype.trim
trim(s) ==
    LET solid == {i \in 1..Len(s) : ~IsSpace(s[i])}
    IN  IF solid = {} THEN <<>>
        ELSE SubSeq(s, CHOOSE i \in solid : \A j \in solid : i <= j,
                       CHOOSE i \in solid : \A j \in solid : j <= i)

\* A JavaScript value is falsy when it is null, undefined or "".
Null == <<>>

Truthy(v) == v # <<>>

\* a || b
OrElse(a, b) == IF Truthy(a) THEN a ELSE b

\* The number read from the digits of s, most significant first.
RECURSIVE DigitsValue(_)
DigitsValue(s) ==
    IF s = <<>> THEN 0
    ELSE 10 * DigitsValue(SubSeq(s, 1, Len(s) - 1)) + DigitValue(s[Len(s)])

\* The longest prefix of s made of digits.
RECURSIVE DigitPrefix(_)
DigitPrefix(s) ==
    IF s # <<>> /\ IsDigit(s[1]) THEN <<s[1]>> \o DigitPrefix(Tail(s)) ELSE <<>>

RECURSIVE SkipSpaces(_)
SkipSpaces(s) == IF s # <<>> /\ IsSpace(s[1]) THEN SkipSpaces(Tail(s)) ELSE s

\* parseInt(s, 10): leading white space is skipped, a sign is read, then the
\* longest run of digits; what follows the digits is ignored. NaN when there
\* is no digit to read.
parseInt(s) ==
    LET t == SkipSpaces(s)
        signed == t # <<>> /\ t[1] \in {"+", "-"}
        d == DigitPrefix(IF signed THEN Tail(t) ELSE t)
    IN  IF d = <<>> THEN [nan |-> TRUE, num |-> 0]
        ELSE [nan |-> FALSE,
              num |-> IF signed /\ t[1] = "-" THEN 0 - DigitsValue(d) ELSE DigitsValue(d)]

\* ------------------------------------------------- LF1: configuration
VALID_CUISINES == {<<"c", "h", "i", "n", "e", "s", "e">>,
                   <<"j", "a", "p", "a", "n", "e", "s", "e">>,
                   <<"i", "t", "a", "l", "i", "a", "n">>,
                   <<"m", "e", "x", "i", "c", "a", "n">>,
                   <<"i", "n", "d", "i", "a", "n">>,
                   <<"t", "h", "a", "i">>}

\* LOCATION_ALIASES as the set of its <<key, value>> entries.
LOCATION_ALIASES == {<<<<"m", "a", "n", "h", "a", "t", "t", "a", "n">>, <<"m", "a", "n", "h", "a", "t", "t", "a", "n">>>>,
                     <<<<"n", "e", "w", " ", "y", "o", "r", "k">>, <<"m", "a", "n", "h", "a", "t", "t", "a", "n">>>>,
                     <<<<"n", "e", "w", " ", "y", "o", "r", "k", " ", "c", "i", "t", "y">>, <<"m", "a", "n", "h", "a", "t", "t", "a", "n">>>>,
                     <<<<"n", "y", "c">>, <<"m", "a", "n", "h", "a", "t", "t", "a", "n">>>>,
                     <<<<"n", "y">>, <<"m", "a", "n", "h", "a", "t", "t", "a", "n">>>>,
                     <<<<"b", "r", "o", "o", "k", "l", "y", "n">>, <<"b", "r", "o", "o", "k", "l", "y", "n">>>>,
                     <<<<"q", "u", "e", "e", "n", "s">>, <<"q", "u", "e", "e", "n", "s">>>>,
                     <<<<"b", "r", "o", "n", "x">>, <<"b", "r", "o", "n", "x">>>>,
                     <<<<"t", "h", "e", " ", "b", "r", "o", "n", "x">>, <<"b", "r", "o", "n", "x">>>>,
                     <<<<"s", "t", "a", "t", "e", "n", " ", "i", "s", "l", "a", "n", "d">>, <<"s", "t", "a", "t", "e", "n", " ", "i", "s", "l", "a", "n", "d">>>>}

\* LOCATION_ALIASES is an object literal: besides its own keys it answers to
\* the names of the members every object inherits from Object.prototype. Of
\* those names only two are in lower case, which is what a lower-cased key
\* can spell: the constructor (a function) and the prototype (an object).
ObjectFunction == <<"[Function: Object]">>

ObjectPrototype == <<"[Object: null prototype] {}">>

InheritedMembers == {<<<<"c", "o", "n", "s", "t", "r", "u", "c", "t", "o", "r">>, ObjectFunction>>,
              <<<<"_", "_", "p", "r", "o", "t", "o", "_", "_">>, ObjectPrototype>>}

\* A value that is a string (and not null, a function or an object).
IsString(v) == v \notin {Null, ObjectFunction, ObjectPrototype}

\* LOCATION_ALIASES[key]: the own entry, else the inherited member, else
\* undefined.
AliasLookup(key) ==
    IF \E e \in LOCATION_ALIASES : e[1] = key
        THEN (CHOOSE e \in LOCATION_ALIASES : e[1] = key)[2]
    ELSE IF \E e \in InheritedMembers : e[1] = key
        THEN (CHOOSE e \in InheritedMembers : e[1] = key)[2]
    ELSE Null

\* normalizeLocation(raw): LOCATION_ALIASES[raw.toLowerCase().trim()] || null.
normalizeLocation(raw) ==
    IF ~Truthy(raw) THEN Null
    ELSE LET key == trim(LowerOf(raw))
         IN  OrElse(AliasLookup(key), Null)

\* --------------------------------------------------- LF1: slots and events
SlotNames == {"Location", "Cuisine", "NumberOfPeople", "DiningDate", "DiningTime", "Email"}

\* A Lex slot is null or {value: {interpretedValue, originalValue}}; a missing
\* member is Null.
Slot(interpreted, original) ==
    [value |-> [interpretedValue |-> interpreted, originalValue |-> original]]

\* A slot that Lex interpreted as typed.
Given(text) == Slot(text, text)

\* getSlotValue(slots, slotName); the slots are Null or a map of slots.
getSlotValue(intentSlots, slotName) ==
    IF intentSlots = Null THEN Null
    ELSE LET slot == intentSlots[slotName]
         IN  IF slot = Null THEN Null
             ELSE IF slot.value = Null THEN Null
             ELSE OrElse(slot.value.interpretedValue, slot.value.originalValue)

\* The ISO text "YYYY-MM-DD" of the calendar day numbered `day`.
IsoDate(day) == <<"iso", day>>

IsIsoDate(s) == Len(s) = 2 /\ s[1] = "iso"

\* Session attributes: a map, kept as the set of its entries. An empty map is
\* an object and therefore truthy.
EmptyAttrs == [entries |-> {}]

\* event.sessionState?.intent?.name and friends: Null when a link is missing.
Undefined == "<undefined>"

HasIntent(event) ==
    event.sessionState # Null /\ event.sessionState.intent # Null

IntentNameOf(event) == IF HasIntent(event) THEN event.sessionState.intent.name ELSE Undefined

RawSlotsOf(event) == IF HasIntent(event) THEN event.sessionState.intent.slots ELSE Null

EmptySlots == [n \in SlotNames |-> Null]

\* event.sessionState?.intent?.slots || {}
SlotsOf(event) == IF RawSlotsOf(event) = Null THEN EmptySlots ELSE RawSlotsOf(event)

\* ---------------------------------------------------- LF1: response builders
\* A message is its template and the values interpolated into it.
Msg(template, args) == [template |-> template, args |-> args]

\* What a function call gives when it raises instead of returning.
Thrown(what) == [type |-> "Thrown", error |-> what]

Response(type, slotToElicit, event, intentSlots, state, message) ==
    [type |-> type, slotToElicit |-> slotToElicit,
     name |-> event.sessionState.intent.name,
     slots |-> intentSlots, state |-> state,
     sessionAttributes |->
        IF event.sessionState.sessionAttributes = Null
            THEN EmptyAttrs ELSE event.sessionState.sessionAttributes,
     message |-> message]

\* Mutant: the closing response hands the location back in canonical form.
buildFulfillmentResponseMut(event, messageContent) ==
    IF ~HasIntent(event) THEN Thrown("TypeError")
    ELSE Response("Close", Undefined, event,
                  IF event.sessionState.intent.slots = Null THEN Null
                  ELSE [event.sessionState.intent.slots EXCEPT !["Location"] =
                            IF @ = Null THEN Null
                            ELSE Given(normalizeLocation(
                                    getSlotValue(event.sessionState.intent.slots, "Location")))],
                  "Fulfilled", messageContent)

\* buildFulfillmentResponse: reads event.sessionState.intent.name, a
\* TypeError when sessionState or intent is missing.
buildFulfillmentResponse(event, messageContent) ==
    IF ~HasIntent(event) THEN Thrown("TypeError")
    ELSE Response("Close", Undefined, event, event.sessionState.intent.slots,
                  "Fulfilled", messageContent)

\* Mutant: the bad value is left in place.
buildElicitSlotResponseMut(event, slotToElicit, messageContent) ==
    IF ~HasIntent(event) THEN Thrown("TypeError")
    ELSE Response("ElicitSlot", slotToElicit, event, SlotsOf(event),
                  "InProgress", messageContent)

\* buildElicitSlotResponse: a copy of the slots with slotToElicit set to null.
buildElicitSlotResponse(event, slotToElicit, messageContent) ==
    IF ~HasIntent(event) THEN Thrown("TypeError")
    ELSE Response("ElicitSlot", slotToElicit, event,
                  [SlotsOf(event) EXCEPT ![slotToElicit] = Null],
                  "InProgress", messageContent)

\* Mutant: the location is handed back in its canonical form.
buildDelegateResponseMut(event) ==
    IF ~HasIntent(event) THEN Thrown("TypeError")
    ELSE Response("Delegate", Undefined, event,
                  [SlotsOf(event) EXCEPT !["Location"] =
                      IF @ = Null THEN Null
                      ELSE Given(normalizeLocation(getSlotValue(SlotsOf(event), "Location")))],
                  "InProgress", Null)

\* buildDelegateResponse
buildDelegateResponse(event) ==
    IF ~HasIntent(event) THEN Thrown("TypeError")
    ELSE Response("Delegate", Undefined, event, event.sessionState.intent.slots,
                  "InProgress", Null)

\* ------------------------------------------------ LF1: dialog validation
\* The wall clock read by `new Date()`: the calendar day in the local time
\* zone of the process, the calendar day in UTC, and the local hour and
\* minute.
Clock(localDay, utcDay, hours, minutes) ==
    [localDay |-> localDay, utcDay |-> utcDay, hours |-> hours, minutes |-> minutes]

\* new Date(diningDate + "T00:00:00"): local midnight of that day, or an
\* invalid date.
ParseDate(diningDate) ==
    IF IsIsoDate(diningDate) THEN [nan |-> FALSE, day |-> diningDate[2]]
    ELSE [nan |-> TRUE, day |-> 0]

\* /^\d{2}:\d{2}$/.test(s)
timeRegex(s) ==
    /\ Len(s) = 5
    /\ IsDigit(s[1]) /\ IsDigit(s[2]) /\ s[3] = ":" /\ IsDigit(s[4]) /\ IsDigit(s[5])

\* [^\s@]+
Solid(s) == s # <<>> /\ \A i \in 1..Len(s) : ~IsSpace(s[i]) /\ s[i] # "@"

\* /^[^\s@]+@[^\s@]+\.[^\s@]+$/.test(s)
emailRegex(s) ==
    \E at \in 1..Len(s), dot \in 1..Len(s) :
        /\ at < dot
        /\ s[at] = "@" /\ s[dot] = "."
        /\ Solid(SubSeq(s, 1, at - 1))
        /\ Solid(SubSeq(s, at + 1, dot - 1))
        /\ Solid(SubSeq(s, dot + 1, Len(s)))

\* The checks of handleDialogValidation, one per slot: the message of the
\* re-prompt, or Null when the slot is absent or passes.
CheckLocation(location) ==
    IF Truthy(location) /\ ~Truthy(normalizeLocation(location))
        THEN Msg("badLocation", <<location>>) ELSE Null

CheckCuisine(cuisine) ==
    IF Truthy(cuisine) /\ trim(LowerOf(cuisine)) \notin VALID_CUISINES
        THEN Msg("badCuisine", <<cuisine>>) ELSE Null

\* Mutant: a party of twenty is already too large.
CheckNumberOfPeopleMut(numberOfPeople) ==
    IF ~Truthy(numberOfPeople) THEN Null
    ELSE LET num == parseInt(numberOfPeople)
         IN  IF num.nan \/ num.num < 1 THEN Msg("badNumber", <<>>)
             ELSE IF num.num >= MaxParty THEN Msg("tooMany", <<>>)
             ELSE Null

CheckNumberOfPeople(numberOfPeople) ==
    IF ~Truthy(numberOfPeople) THEN Null
    ELSE LET num == parseInt(numberOfPeople)
         IN  IF num.nan \/ num.num < 1 THEN Msg("badNumber", <<>>)
             ELSE IF num.num > MaxParty THEN Msg("tooMany", <<>>)
             ELSE Null

\* Mutant: the ninetieth day is already too far.
CheckDiningDateMut(diningDate, now) ==
    IF ~Truthy(diningDate) THEN Null
    ELSE LET today == now.localDay
             requested == ParseDate(diningDate)
             maxFuture == today + MaxDaysAhead
         IN  IF requested.nan THEN Msg("badDate", <<>>)
             ELSE IF requested.day < today THEN Msg("pastDate", <<diningDate>>)
             ELSE IF requested.day >= maxFuture THEN Msg("farDate", <<>>)
             ELSE Null

\* The date check: today is midnight of the current day in the local time
\* zone of the process (setHours(0, 0, 0, 0)), as is the requested day.
CheckDiningDate(diningDate, now) ==
    IF ~Truthy(diningDate) THEN Null
    ELSE LET today == now.localDay
             requested == ParseDate(diningDate)
             maxFuture == today + MaxDaysAhead
         IN  IF requested.nan THEN Msg("badDate", <<>>)
             ELSE IF requested.day < today THEN Msg("pastDate", <<diningDate>>)
             ELSE IF requested.day > maxFuture THEN Msg("farDate", <<>>)
             ELSE Null

\* Mutant: the opening hours start an hour earlier.
CheckDiningTimeMut(diningTime, diningDate, now) ==
    IF ~Truthy(diningTime) THEN Null
    ELSE IF ~timeRegex(diningTime) THEN Msg("badTime", <<>>)
    ELSE LET hours == DigitsValue(SubSeq(diningTime, 1, 2))
             minutes == DigitsValue(SubSeq(diningTime, 4, 5))
             todayStr == IsoDate(now.utcDay)
         IN  IF hours < OpenHour - 1 \/ hours > CloseHour THEN Msg("closedHours", <<>>)
             ELSE IF /\ Truthy(diningDate)
                     /\ diningDate = todayStr
                     /\ (hours < now.hours
                            \/ (hours = now.hours /\ minutes <= now.minutes))
                 THEN Msg("pastTime", <<diningTime>>)
             ELSE Null

\* The time check: the hour is compared with the opening hours; today is the
\* date part of now.toISOString(), the current day in UTC, and the hour and
\* minute of now are the local ones.
CheckDiningTime(diningTime, diningDate, now) ==
    IF ~Truthy(diningTime) THEN Null
    ELSE IF ~timeRegex(diningTime) THEN Msg("badTime", <<>>)
    ELSE LET hours == DigitsValue(SubSeq(diningTime, 1, 2))
             minutes == DigitsValue(SubSeq(diningTime, 4, 5))
             todayStr == IsoDate(now.utcDay)
         IN  IF hours < OpenHour \/ hours > CloseHour THEN Msg("closedHours", <<>>)
             ELSE IF /\ Truthy(diningDate)
                     /\ diningDate = todayStr
                     /\ (hours < now.hours
                            \/ (hours = now.hours /\ minutes <= now.minutes))
                 THEN Msg("pastTime", <<diningTime>>)
             ELSE Null

\* Mutant: an absent e-mail address is asked for as well.
CheckEmailMut(email) ==
    IF ~Truthy(email) \/ ~emailRegex(email) THEN Msg("badEmail", <<>>) ELSE Null

CheckEmail(email) ==
    IF Truthy(email) /\ ~emailRegex(email) THEN Msg("badEmail", <<>>) ELSE Null

\* The order in which handleDialogValidation looks at the slots.
SlotOrder == <<"Location", "Cuisine", "NumberOfPeople", "DiningDate", "DiningTime", "Email">>

\* The check of the slot named n, on the slots of one turn.
CheckSlot(n, intentSlots, now) ==
    CASE n = "Location" -> CheckLocation(getSlotValue(intentSlots, n))
      [] n = "Cuisine" -> CheckCuisine(getSlotValue(intentSlots, n))
      [] n = "NumberOfPeople" -> CheckNumberOfPeople(getSlotValue(intentSlots, n))
      [] n = "DiningDate" -> CheckDiningDate(getSlotValue(intentSlots, n), now)
      [] n = "DiningTime" ->
            CheckDiningTime(getSlotValue(intentSlots, n),
                            getSlotValue(intentSlots, "DiningDate"), now)
      [] OTHER -> CheckEmail(getSlotValue(intentSlots, n))

\* Mutant: the e-mail address is looked at first.
handleDialogValidationMut(event, intentSlots, now) ==
    LET location == getSlotValue(intentSlots, "Location")
        cuisine == getSlotValue(intentSlots, "Cuisine")
        numberOfPeople == getSlotValue(intentSlots, "NumberOfPeople")
        diningDate == getSlotValue(intentSlots, "DiningDate")
        diningTime == getSlotValue(intentSlots, "DiningTime")
        email == getSlotValue(intentSlots, "Email")
    IN  IF CheckEmail(email) # Null
            THEN buildElicitSlotResponse(event, "Email", CheckEmail(email))
        ELSE IF CheckLocation(location) # Null
            THEN buildElicitSlotResponse(event, "Location", CheckLocation(location))
        ELSE IF CheckCuisine(cuisine) # Null
            THEN buildElicitSlotResponse(event, "Cuisine", CheckCuisine(cuisine))
        ELSE IF CheckNumberOfPeople(numberOfPeople) # Null
            THEN buildElicitSlotResponse(event, "NumberOfPeople", CheckNumberOfPeople(numberOfPeople))
        ELSE IF CheckDiningDate(diningDate, now) # Null
            THEN buildElicitSlotResponse(event, "DiningDate", CheckDiningDate(diningDate, now))
        ELSE IF CheckDiningTime(diningTime, diningDate, now) # Null
            THEN buildElicitSlotResponse(event, "DiningTime", CheckDiningTime(diningTime, diningDate, now))
        ELSE buildDelegateResponse(event)

\* handleDialogValidation: the slots are looked at one after the other; the
\* first check that fails returns the re-prompt of its slot, and when none
\* fails the turn is delegated.
handleDialogValidation(event, intentSlots, now) ==
    LET location == getSlotValue(intentSlots, "Location")
        cuisine == getSlotValue(intentSlots, "Cuisine")
        numberOfPeople == getSlotValue(intentSlots, "NumberOfPeople")
        diningDate == getSlotValue(intentSlots, "DiningDate")
        diningTime == getSlotValue(intentSlots, "DiningTime")
        email == getSlotValue(intentSlots, "Email")
    IN  IF CheckLocation(location) # Null
            THEN buildElicitSlotResponse(event, "Location", CheckLocation(location))
        ELSE IF CheckCuisine(cuisine) # Null
            THEN buildElicitSlotResponse(event, "Cuisine", CheckCuisine(cuisine))
        ELSE IF CheckNumberOfPeople(numberOfPeople) # Null
            THEN buildElicitSlotResponse(event, "NumberOfPeople", CheckNumberOfPeople(numberOfPeople))
        ELSE IF CheckDiningDate(diningDate, now) # Null
            THEN buildElicitSlotResponse(event, "DiningDate", CheckDiningDate(diningDate, now))
        ELSE IF CheckDiningTime(diningTime, diningDate, now) # Null
            THEN buildElicitSlotResponse(event, "DiningTime", CheckDiningTime(diningTime, diningDate, now))
        ELSE IF CheckEmail(email) # Null
            THEN buildElicitSlotResponse(event, "Email", CheckEmail(email))
        ELSE buildDelegateResponse(event)

\* ------------------------------------------------------ LF1: the inputs
\* Slot values of the turns explored: per slot, absent, a value that passes
\* its check and values that do not (for NumberOfPeople also a raw utterance
\* that Lex could not interpret, which getSlotValue falls back to).
LocationSlots == {Null, Given(<<"N", "Y", "C">>), Given(<<"P", "a", "r", "i", "s">>)}
CuisineSlots == {Null, Given(<<"T", "h", "a", "i", " ">>), Given(<<"f", "r", "e", "n", "c", "h">>)}
NumberOfPeopleSlots == {Null, Given(<<"2">>), Given(<<"2", "1">>),
                        Slot(Null, <<"2", " ", "p", "e", "o", "p", "l", "e">>)}
DiningDateSlots == {Null, Given(IsoDate(0)), Given(IsoDate(-1))}
DiningTimeSlots == {Null, Given(<<"1", "9", ":", "3", "0">>), Given(<<"0", "5", ":", "0", "0">>)}
EmailSlots == {Null, Given(<<"a", "@", "b", ".", "c", "o">>), Given(<<"a", "@", "b">>)}

SlotMaps ==
    {[n \in SlotNames |->
        CASE n = "Location" -> l [] n = "Cuisine" -> c [] n = "NumberOfPeople" -> p
          [] n = "DiningDate" -> d [] n = "DiningTime" -> t [] OTHER -> e] :
        l \in LocationSlots, c \in CuisineSlots, p \in NumberOfPeopleSlots,
        d \in DiningDateSlots, t \in DiningTimeSlots, e \in EmailSlots}

\* Nothing filled in, and a slot whose `value` member is missing.
FewSlotMaps ==
    {EmptySlots,
     [EmptySlots EXCEPT !["Email"] = [value |-> Null]],
     [n \in SlotNames |->
        CASE n = "Location" -> Given(<<"N", "Y", "C">>)
          [] n = "Cuisine" -> Given(<<"T", "h", "a", "i", " ">>)
          [] n = "NumberOfPeople" -> Given(<<"2">>)
          [] n = "DiningDate" -> Given(IsoDate(0))
          [] n = "DiningTime" -> Given(<<"1", "9", ":", "3", "0">>)
          [] OTHER -> Given(<<"a", "@", "b">>)]}

\* A request with every slot filled in and valid under every clock of Clocks.
ValidSlots ==
    [n \in SlotNames |->
        CASE n = "Location" -> Given(<<"N", "Y", "C">>)
          [] n = "Cuisine" -> Given(<<"T", "h", "a", "i", " ">>)
          [] n = "NumberOfPeople" -> Given(<<"2">>)
          [] n = "DiningDate" -> Given(IsoDate(5))
          [] n = "DiningTime" -> Given(<<"1", "9", ":", "3", "0">>)
          [] OTHER -> Given(<<"a", "@", "b", ".", "c", "o">>)]

\* Values at and around the limits of the checks: spellings of the aliases
\* and of names that are not, party sizes around 1 and 20, days around today
\* and today + 90, times around the opening hours and around the clock.
MoreLocationSlots ==
    {Given(<<"n", "e", "w", " ", "y", "o", "r", "k">>), Given(<<"n", "y">>),
     Given(<<"B", "r", "o", "o", "k", "l", "y", "n">>),
     Given(<<" ", "Q", "u", "e", "e", "n", "s", " ">>),
     Given(<<"C", "o", "n", "s", "t", "r", "u", "c", "t", "o", "r">>),
     Given(<<"_", "_", "p", "r", "o", "t", "o", "_", "_">>)}

MoreNumberOfPeopleSlots ==
    {Given(<<"-", "1">>), Given(<<"0">>), Given(<<"1">>),
     Given(<<"2", "0">>), Given(<<"1", "0", "0">>), Given(<<"+", "5">>)}

DayOffsets == {-1, 0, 1, 2, 89, 90, 91, 92}

MoreDiningDateSlots == {Given(IsoDate(d)) : d \in DayOffsets} \cup {Given(<<"s", "o", "o", "n">>)}

MoreDiningTimeSlots ==
    {Given(<<"0", "5", ":", "5", "9">>), Given(<<"0", "6", ":", "0", "0">>),
     Given(<<"1", "2", ":", "0", "0">>), Given(<<"1", "9", ":", "7", "5">>),
     Given(<<"2", "0", ":", "0", "0">>), Given(<<"2", "0", ":", "0", "1">>),
     Given(<<"2", "3", ":", "0", "0">>), Given(<<"2", "3", ":", "3", "0">>),
     Given(<<"2", "3", ":", "5", "9">>), Given(<<"2", "4", ":", "0", "0">>),
     Given(<<"7", " ", "p", "m">>)}

\* ValidSlots with one slot, or the date and the time, replaced.
ProbeSlotMaps ==
    {[ValidSlots EXCEPT !["Location"] = v] : v \in LocationSlots \cup MoreLocationSlots}
    \cup {[ValidSlots EXCEPT !["NumberOfPeople"] = v] :
                v \in NumberOfPeopleSlots \cup MoreNumberOfPeopleSlots}
    \cup {[ValidSlots EXCEPT !["DiningDate"] = v] :
                v \in DiningDateSlots \cup MoreDiningDateSlots}
    \cup {[ValidSlots EXCEPT !["DiningDate"] = d, !["DiningTime"] = t] :
                d \in {Null, Given(IsoDate(0)), Given(IsoDate(1))},
                t \in DiningTimeSlots \cup MoreDiningTimeSlots}

SomeAttrs == [entries |-> {<<"lastIntent", "greeting">>}]

Event(name, invocationSource, intentSlots, sessionAttributes) ==
    [sessionState |->
        [intent |-> [name |-> name, slots |-> intentSlots],
         sessionAttributes |-> sessionAttributes],
     invocationSource |-> invocationSource]

IntentNames == {"GreetingIntent", "ThankYouIntent", "DiningSuggestionsIntent", "FallbackIntent"}
InvocationSources == {"DialogCodeHook", "FulfillmentCodeHook", "Other"}

\* Well-formed events of the dining intent in its two phases.
DiningEvents ==
    {Event("DiningSuggestionsIntent", src, s, SomeAttrs) :
        src \in {"DialogCodeHook", "FulfillmentCodeHook"}, s \in SlotMaps}

\* Every intent in every phase, with and without slots and session attributes.
OtherEvents ==
    {Event(name, src, s, a) :
        name \in IntentNames, src \in InvocationSources,
        s \in FewSlotMaps \cup {Null}, a \in {SomeAttrs, EmptyAttrs, Null}}

\* Events that lack sessionState or sessionState.intent.
BrokenEvents ==
    {[sessionState |-> Null, invocationSource |-> src] : src \in InvocationSources}
    \cup {[sessionState |-> [intent |-> Null, sessionAttributes |-> SomeAttrs],
           invocationSource |-> src] : src \in InvocationSources}

\* Mid-dialog turns at the limits of the checks.
ProbeEvents ==
    {Event("DiningSuggestionsIntent", "DialogCodeHook", s, SomeAttrs) : s \in ProbeSlotMaps}

\* Request-complete turns whose location spells an inherited member.
InheritedEvents ==
    {Event("DiningSuggestionsIntent", "FulfillmentCodeHook",
           [ValidSlots EXCEPT !["Location"] = v], SomeAttrs) : v \in MoreLocationSlots}

Events == DiningEvents \cup OtherEvents \cup BrokenEvents \cup ProbeEvents \cup InheritedEvents

\* The process in the time zone UTC: noon, eight in the evening and the last
\* minute of day 0. The process west of UTC: eight in the evening of day 0,
\* when UTC is in day 1. The process east of UTC: eight in the morning of
\* day 1, when UTC is still in day 0.
Clocks == {Clock(0, 0, 12, 0), Clock(0, 0, 20, 0), Clock(0, 0, 23, 59),
           Clock(0, 1, 20, 0), Clock(1, 0, 8, 0)}

\* index, store: the search index and the restaurant table. slots, worker:
\* the invocations of LF2. queue, body: the work queue and the payload of its
\* items. lf1: the invocation of the LF1 handler. userState: the "user-state"
\* table. now: the wall clock. notified: what has happened so far to each
\* WorkItem whose history is kept (none, in the specifications that do not
\* look at it).
VARIABLES index, store, slots, queue, body, worker, lf1, userState, now, notified

vars == <<index, store, slots, queue, body, worker, lf1, userState, now, notified>>

\* LF1 is not running; `returned` is the response of the turn before, which
\* Lex keeps as the state of the session, and `asked` the slots that the
\* turns of the conversation have elicited so far, in order.
NoTurn ==
    [pc |-> "idle", event |-> Null, response |-> Null, sqsMessage |-> Null,
     sends |-> 0, saves |-> 0, sendOutcome |-> "none", returned |-> Null,
     asked |-> <<>>]

Idle ==
    [pc |-> "idle", message |-> NoMsg, restaurantIds |-> <<>>,
     selectedIds |-> <<>>, pending |-> {}, restaurants |-> <<>>,
     emailed |-> <<>>, searched |-> FALSE, raised |-> {}, acks |-> 0,
     emails |-> 0, lookups |-> 0, statusCode |-> 0, resultBody |-> "",
     lapsed |-> FALSE, reordered |-> FALSE]

\* The WorkItems that can be placed on the queue in this run.
Items == DOMAIN queue

\* The history of a WorkItem: the notification attempts made for it (counted
\* up to MaxAttempts), whether a delete of it has failed, and whether its
\* visibility timeout has elapsed while an invocation was holding it.
NoHistory == [attempts |-> 0, ackFailed |-> FALSE, lapsed |-> FALSE]

\* No history is kept.
Untracked == [m \in {} |-> NoHistory]

\* sendEmailViaSES is called for item m.
Attempted(h, m) ==
    IF m \in DOMAIN h THEN [h EXCEPT ![m].attempts = Min(@ + 1, MaxAttempts)] ELSE h

\* deleteSQSMessage raises for item m.
AckFailed(h, m) == IF m \in DOMAIN h THEN [h EXCEPT ![m].ackFailed = TRUE] ELSE h

\* The visibility timeout of item m elapses; held tells whether an
\* invocation is still holding it.
Lapsed(h, m, held) ==
    IF m \in DOMAIN h /\ held THEN [h EXCEPT ![m].lapsed = TRUE] ELSE h

\* Nothing queued, no invocation running.
Quiet(items) ==
    /\ queue = [m \in items |-> "unsent"]
    /\ body = [m \in items |-> NoBody]
    /\ worker = [w \in Workers |-> Idle]
    /\ lf1 = NoTurn
    /\ userState = {}
    /\ now = Clock(0, 0, 12, 0)
    /\ notified = Untracked

\* One invocation at a time (the scheduler's ticks do not overlap).
Init ==
    /\ slots = {1}
    /\ index \in [{"thai"} -> HitLists(MaxHits)]
    /\ store \in Stores
    /\ Quiet(MsgIds)

\* Invocations may overlap; two WorkItems, at most one hit, every record
\* present.
InitOverlap ==
    /\ slots = Workers
    /\ index \in [{"thai"} -> ShortHitLists]
    /\ store = [id \in IDs |-> "full"]
    /\ Quiet(OverlapItems)

\* ------------------------------------------------------- error boundaries
\* The awaited calls and parsing steps of the handler that can raise.
Sites == {"receive", "parse", "search", "lookup", "email", "ack"}

\* Mutant: the send is not wrapped in a try of its own.
EmailTryMut == {}

\* try { await sendEmailViaSES(...) } catch (emailError) { log }
EmailTry == {"email"}

\* Mutant: the final delete sits after the handler's try block.
HandlerTryMut == {"receive", "parse", "search", "lookup", "email"}

\* try { ... } catch (error) { return { statusCode: 500, ... } }
HandlerTry == {"receive", "parse", "search", "lookup", "email", "ack"}

\* Mutant: the email catch deletes the message itself, and so does the
\* statement after it.
ThrowMut(r, site, errMessage) ==
    LET e == [r EXCEPT !.raised = @ \cup {site}, !.pending = {}]
    IN  IF site \in {"email"}
            THEN [e EXCEPT !.acks = @ + 1, !.pc = "ack"]
            ELSE [e EXCEPT !.pc = "done", !.statusCode = 500, !.resultBody = errMessage]

\* The invocation record after `site` raises: the innermost enclosing catch
\* decides; an error no catch encloses leaves the handler as a rejection.
Throw(r, site, errMessage) ==
    LET e == [r EXCEPT !.raised = @ \cup {site}, !.pending = {}]
    IN  IF site \in EmailTry
            THEN [e EXCEPT !.pc = "ack"]
        ELSE IF site \in HandlerTry
            THEN [e EXCEPT !.pc = "done", !.statusCode = 500, !.resultBody = errMessage]
        ELSE [e EXCEPT !.pc = "crashed"]

Finish(r, code, text) ==
    [r EXCEPT !.pc = "done", !.statusCode = code, !.resultBody = text]

\* What no step of LF2 or of the queue changes.
Frame == UNCHANGED <<index, store, slots, lf1, userState, now>>

Static == Frame /\ UNCHANGED notified

\* ---------------------------------------------------------- work queue
\* An item of the queue is "unsent", "visible" (receivable), "inflight" (handed
\* to a receiver and hidden until acknowledged or timed out) or "removed".

\* LF1 handleFulfillment: SendMessageCommand with the lower-cased cuisine.
EnqueueRequest ==
    \E m \in Items :
        /\ queue[m] = "unsent"
        /\ \A k \in Items : k < m => queue[k] # "unsent"
        /\ queue' = [queue EXCEPT ![m] = "visible"]
        /\ body' = [body EXCEPT ![m] = toLowerCase("Thai")]
        /\ UNCHANGED worker
        /\ Static

\* Any other producer: the queue accepts an opaque payload.
EnqueueForeign ==
    \E m \in Items, b \in {Malformed} :
        /\ queue[m] = "unsent"
        /\ \A k \in Items : k < m => queue[k] # "unsent"
        /\ queue' = [queue EXCEPT ![m] = "visible"]
        /\ body' = [body EXCEPT ![m] = b]
        /\ UNCHANGED worker
        /\ Static

\* pcs at which an invocation has received an item and neither acknowledged
\* nor abandoned it.
Holding == {"search", "lookup", "email", "ackNone", "ack"}

Holds(w, m) == worker[w].message = m /\ worker[w].pc \in Holding

\* The visibility timeout of an in-flight item elapses: the queue makes the
\* item receivable again, whether or not its receiver is still running
\* (`lapsed` records that it was).
VisibilityTimeout ==
    \E m \in Items :
        /\ queue[m] = "inflight"
        /\ queue' = [queue EXCEPT ![m] = "visible"]
        /\ worker' = [w \in Workers |->
                IF Holds(w, m) THEN [worker[w] EXCEPT !.lapsed = TRUE] ELSE worker[w]]
        /\ notified' = Lapsed(notified, m, \E w \in Workers : Holds(w, m))
        /\ UNCHANGED body
        /\ Frame

\* Mutant: the receive asks for a visibility timeout of zero.
HideMut(q, m) == q

\* ReceiveMessage hides the item it hands out from the other receivers.
Hide(q, m) == [q EXCEPT ![m] = "inflight"]

\* Mutant: the delete removes every item that is in flight.
DeleteMut(q, m) == [k \in DOMAIN q |-> IF q[k] = "inflight" \/ k = m THEN "removed" ELSE q[k]]

\* DeleteMessage(ReceiptHandle) removes the item the handle belongs to.
Delete(q, m) == [q EXCEPT ![m] = "removed"]

\* ------------------------------------------------------------- handler
\* The scheduler starts the handler, which reads process.env.SQS_QUEUE_URL
\* (set or not) and returns at once when it is not set.
Invoke(w) ==
    \E sqsQueueUrl \in BOOLEAN :
        /\ w \in slots
        /\ worker[w].pc = "idle"
        /\ worker' = [worker EXCEPT ![w] =
                IF sqsQueueUrl
                    THEN [Idle EXCEPT !.pc = "receive"]
                    ELSE Finish(Idle, 500, "SQS_QUEUE_URL not configured")]
        /\ UNCHANGED <<queue, body>>
        /\ Static

ReceiveThrows(w) ==
    /\ worker[w].pc = "receive"
    /\ worker' = [worker EXCEPT ![w] = Throw(@, "receive", "receive failed")]
    /\ UNCHANGED <<queue, body>>
    /\ Static

\* Mutant: an empty receive is reported as a failed invocation.
NoMessagesMut(r) == [r EXCEPT !.pc = "done", !.statusCode = 500,
                              !.resultBody = "No messages to process"]

\* !receiveResult.Messages || receiveResult.Messages.length === 0
NoMessages(r) == Finish(r, 200, "No messages to process")

\* No message came back (none visible, or the short poll found none).
ReceiveEmpty(w) ==
    /\ worker[w].pc = "receive"
    /\ worker' = [worker EXCEPT ![w] = NoMessages(@)]
    /\ UNCHANGED <<queue, body>>
    /\ Static

\* One message came back; JSON.parse runs before the next await.
ReceiveMessage(w) ==
    \E m \in Items :
        /\ worker[w].pc = "receive"
        /\ queue[m] = "visible"
        /\ queue' = Hide(queue, m)
        /\ worker' = [worker EXCEPT ![w] =
                IF Parses(body[m])
                    THEN [@ EXCEPT !.message = m, !.pc = "search"]
                    ELSE Throw([@ EXCEPT !.message = m], "parse", "Unexpected token")]
        /\ UNCHANGED body
        /\ Static

\* restaurants.map((r, i) => `${i + 1}. ${r.name}, located at ${r.address}`)
restaurantList(restaurants) ==
    [i \in 1..Len(restaurants) |->
        [ordinal |-> i, name |-> restaurants[i].name, address |-> restaurants[i].address]]

Unfetched == [name |-> "<pending>", address |-> "<pending>"]

\* Mutant: the empty result returns without deleting the message.
NoHitsMut(r) == [r EXCEPT !.pc = "done", !.statusCode = 200,
                          !.resultBody = "No restaurants found"]

\* restaurantIds.length === 0: delete the message, then return.
NoHits(r) == [r EXCEPT !.pc = "ackNone"]

\* searchOpenSearch raises: OPENSEARCH_ENDPOINT is not set, the request fails,
\* the answer is not 2xx, or its body is not JSON.
SearchThrows(w) ==
    /\ worker[w].pc = "search"
    /\ worker' = [worker EXCEPT ![w] = Throw(@, "search", "search failed")]
    /\ UNCHANGED <<queue, body>>
    /\ Static

\* searchOpenSearch returned. With no hit the handler goes on to delete the
\* message; otherwise it selects and issues every detail lookup (Promise.all
\* over selectedIds.map) before its next await.
SearchReturns(w) ==
    \E hasHits \in BOOLEAN :
        LET restaurantIds ==
                IF hasHits THEN SearchHits(index, body[worker[w].message]) ELSE <<>>
        IN  /\ worker[w].pc = "search"
            /\ IF Len(restaurantIds) = 0
                  THEN worker' = [worker EXCEPT ![w] =
                            NoHits([@ EXCEPT !.searched = TRUE,
                                             !.restaurantIds = restaurantIds])]
                  ELSE \E selectedIds \in getRandomItems(restaurantIds, PickCount) :
                        worker' = [worker EXCEPT ![w] =
                            [@ EXCEPT !.searched = TRUE,
                                      !.restaurantIds = restaurantIds,
                                      !.selectedIds = selectedIds,
                                      !.pending = 1..Len(selectedIds),
                                      !.lookups = Len(selectedIds),
                                      !.restaurants =
                                          [i \in 1..Len(selectedIds) |-> Unfetched],
                                      !.pc = "lookup"]]
            /\ UNCHANGED <<queue, body>>
            /\ Static

\* sendEmailViaSES up to its await: process.env.SES_SENDER_EMAIL is read (set
\* or not), then the list is composed.
StartEmail(r, senderEmail) ==
    IF senderEmail
        THEN [r EXCEPT !.emails = @ + 1, !.emailed = restaurantList(r.restaurants),
                       !.pc = "email"]
        ELSE Throw([r EXCEPT !.emails = @ + 1], "email", "SES_SENDER_EMAIL not configured")

\* Mutant: the results are collected in the order in which they arrive.
SettleMut(r, i, value) ==
    [r EXCEPT !.restaurants[Len(r.selectedIds) - Cardinality(r.pending) + 1] = value,
              !.pending = @ \ {i},
              !.reordered = @ \/ (\E j \in r.pending : j < i)]

\* Promise.all: the value of the i-th promise becomes the i-th element of the
\* result, whenever it arrives. `reordered` records that a lookup returned
\* before one issued ahead of it.
Settle(r, i, value) ==
    [r EXCEPT !.restaurants[i] = value,
              !.pending = @ \ {i},
              !.reordered = @ \/ (\E j \in r.pending : j < i)]

\* Mutant: the notification is composed as soon as one lookup has returned.
LookupReturnsMut(w) ==
    \E i \in worker[w].pending, senderEmail \in BOOLEAN :
        LET r == Settle(worker[w], i,
                        getRestaurantFromDynamoDB(store, worker[w].selectedIds[i]))
        IN  /\ worker[w].pc = "lookup"
            /\ worker' = [worker EXCEPT ![w] = StartEmail(r, senderEmail)]
            /\ notified' = Attempted(notified, worker[w].message)
            /\ UNCHANGED <<queue, body>>
            /\ Frame

\* The lookup of the i-th selected candidate returns; when it is the last one
\* pending, Promise.all resolves and the handler calls sendEmailViaSES.
LookupReturns(w) ==
    \E i \in worker[w].pending, senderEmail \in BOOLEAN :
        LET r == Settle(worker[w], i,
                        getRestaurantFromDynamoDB(store, worker[w].selectedIds[i]))
        IN  /\ worker[w].pc = "lookup"
            /\ worker' = [worker EXCEPT ![w] = IF r.pending = {} THEN StartEmail(r, senderEmail) ELSE r]
            /\ notified' = IF r.pending = {} THEN Attempted(notified, worker[w].message)
                                             ELSE notified
            /\ UNCHANGED <<queue, body>>
            /\ Frame

\* A lookup raises: Promise.all rejects at once and `restaurants` is never
\* assigned.
LookupThrows(w) ==
    \E i \in worker[w].pending :
        /\ worker[w].pc = "lookup"
        /\ worker' = [worker EXCEPT ![w] =
                Throw([@ EXCEPT !.restaurants = <<>>], "lookup", "lookup failed")]
        /\ UNCHANGED <<queue, body>>
        /\ Static

EmailReturns(w) ==
    /\ worker[w].pc = "email"
    /\ worker' = [worker EXCEPT ![w] = [@ EXCEPT !.pc = "ack"]]
    /\ UNCHANGED <<queue, body>>
    /\ Static

EmailThrows(w) ==
    /\ worker[w].pc = "email"
    /\ worker' = [worker EXCEPT ![w] = Throw(@, "email", "send failed")]
    /\ UNCHANGED <<queue, body>>
    /\ Static

\* Mutant: the delete returns and the item is receivable again.
AckReturnsMut(w) ==
    /\ worker[w].pc \in {"ackNone", "ack"}
    /\ queue' = [queue EXCEPT ![worker[w].message] = "visible"]
    /\ worker' = [worker EXCEPT ![w] =
            Finish([@ EXCEPT !.acks = @ + 1], 200,
                   IF @.pc = "ackNone" THEN "No restaurants found" ELSE "Message processed")]
    /\ UNCHANGED body
    /\ Static

\* deleteSQSMessage returned, on either path that reaches it.
AckReturns(w) ==
    /\ worker[w].pc \in {"ackNone", "ack"}
    /\ queue' = Delete(queue, worker[w].message)
    /\ worker' = [worker EXCEPT ![w] =
            Finish([@ EXCEPT !.acks = @ + 1], 200,
                   IF @.pc = "ackNone" THEN "No restaurants found" ELSE "Message processed")]
    /\ UNCHANGED body
    /\ Static

AckThrows(w) ==
    /\ worker[w].pc \in {"ackNone", "ack"}
    /\ worker' = [worker EXCEPT ![w] = Throw([@ EXCEPT !.acks = @ + 1], "ack", "delete failed")]
    /\ notified' = AckFailed(notified, worker[w].message)
    /\ UNCHANGED <<queue, body>>
    /\ Frame

\* The result reaches the scheduler; the slot is free for the next tick.
Return(w) ==
    /\ worker[w].pc = "done"
    /\ worker' = [worker EXCEPT ![w] = Idle]
    /\ UNCHANGED <<queue, body>>
    /\ Static

Next ==
    \/ EnqueueRequest
    \/ EnqueueForeign
    \/ VisibilityTimeout
    \/ \E w \in Workers :
        \/ Invoke(w)
        \/ ReceiveThrows(w)
        \/ ReceiveEmpty(w)
        \/ ReceiveMessage(w)
        \/ SearchThrows(w)
        \/ SearchReturns(w)
        \/ LookupReturns(w)
        \/ LookupThrows(w)
        \/ EmailReturns(w)
        \/ EmailThrows(w)
        \/ AckReturns(w)
        \/ AckThrows(w)
        \/ Return(w)

Spec == Init /\ [][Next]_vars

OverlapSpec == InitOverlap /\ [][Next]_vars

\* Two invocation slots and two WorkItems whose history is kept; at most one
\* hit, every record present.
NotifyItems == {1, 2}

InitNotify ==
    /\ slots = {1, 2}
    /\ index \in [{"thai"} -> ShortHitLists]
    /\ store = [id \in IDs |-> "full"]
    /\ queue = [m \in NotifyItems |-> "unsent"]
    /\ body = [m \in NotifyItems |-> NoBody]
    /\ worker = [w \in Workers |-> Idle]
    /\ lf1 = NoTurn
    /\ userState = {}
    /\ now = Clock(0, 0, 12, 0)
    /\ notified = [m \in NotifyItems |-> NoHistory]

NotifySpec == InitNotify /\ [][Next]_vars

\* What one invocation does between its start and its result.
WorkerStep(w) ==
    \/ ReceiveThrows(w) \/ ReceiveEmpty(w) \/ ReceiveMessage(w)
    \/ SearchThrows(w) \/ SearchReturns(w)
    \/ LookupReturns(w) \/ LookupThrows(w)
    \/ EmailReturns(w) \/ EmailThrows(w)
    \/ AckReturns(w) \/ AckThrows(w)

\* One invocation at a time, at most one hit, every record present.
InitLive ==
    /\ slots = {1}
    /\ index \in [{"thai"} -> ShortHitLists]
    /\ store = [id \in IDs |-> "full"]
    /\ Quiet(MsgIds)

\* The scheduler keeps ticking, every awaited call comes back, the queue
\* redelivers after the visibility timeout, and the queue itself is sound: a
\* receive that can hand out an item, and a delete that can succeed, are not
\* refused forever. No such assumption is made of the search, the record
\* store or the notification service.
Fairness ==
    /\ WF_vars(VisibilityTimeout)
    /\ \A w \in Workers :
        /\ WF_vars(Invoke(w))
        /\ WF_vars(WorkerStep(w))
        /\ WF_vars(Return(w))
        /\ SF_vars(ReceiveMessage(w))
        /\ SF_vars(AckReturns(w))

LiveSpec == InitLive /\ [][Next]_vars /\ Fairness

\* ========================================================= LF1: the handler
\* The outer catch of the handler: what was thrown inside the try becomes the
\* apology built by buildFulfillmentResponse (which, called from the catch
\* block, can only throw to the caller).
HandlerCatch(event, result) ==
    IF result.type = "Thrown"
        THEN buildFulfillmentResponse(event, Msg("oops", <<>>))
        ELSE result

\* const location = normalizeLocation(locationRaw) || locationRaw
FulfilledLocation(intentSlots) ==
    OrElse(normalizeLocation(getSlotValue(intentSlots, "Location")),
           getSlotValue(intentSlots, "Location"))

\* Mutant: the message carries the slot values as they were typed.
sqsMessageMut(intentSlots) ==
    [Location |-> getSlotValue(intentSlots, "Location"),
     Cuisine |-> getSlotValue(intentSlots, "Cuisine"),
     NumberOfPeople |-> getSlotValue(intentSlots, "NumberOfPeople"),
     DiningDate |-> getSlotValue(intentSlots, "DiningDate"),
     DiningTime |-> getSlotValue(intentSlots, "DiningTime"),
     Email |-> getSlotValue(intentSlots, "Email")]

\* The SQS message of handleFulfillment; cuisine is not null here.
sqsMessage(intentSlots) ==
    [Location |-> FulfilledLocation(intentSlots),
     Cuisine |-> trim(LowerOf(getSlotValue(intentSlots, "Cuisine"))),
     NumberOfPeople |-> getSlotValue(intentSlots, "NumberOfPeople"),
     DiningDate |-> getSlotValue(intentSlots, "DiningDate"),
     DiningTime |-> getSlotValue(intentSlots, "DiningTime"),
     Email |-> getSlotValue(intentSlots, "Email")]

\* cuisine.charAt(0).toUpperCase() + cuisine.slice(1).toLowerCase()
cuisineDisplay(cuisine) ==
    IF cuisine = <<>> THEN <<>>
    ELSE UpperOf(SubSeq(cuisine, 1, 1)) \o LowerOf(SubSeq(cuisine, 2, Len(cuisine)))

\* The closing message of a fulfilled request.
Confirmation(intentSlots) ==
    Msg("allSet", <<cuisineDisplay(getSlotValue(intentSlots, "Cuisine")),
                    getSlotValue(intentSlots, "NumberOfPeople"),
                    getSlotValue(intentSlots, "DiningDate"),
                    getSlotValue(intentSlots, "DiningTime"),
                    getSlotValue(intentSlots, "Email")>>)

\* Mutant: the greeting is given in the dialog phase only.
DispatchMut(event, clock, sqsQueueUrl) ==
    LET intentName == IntentNameOf(event)
        invocationSource == event.invocationSource
        intentSlots == SlotsOf(event)
        turn == [NoTurn EXCEPT !.event = event]
        Returns(result) ==
            [turn EXCEPT !.pc = "done", !.response = HandlerCatch(event, result)]
    IN  IF intentName = "GreetingIntent" /\ invocationSource # "FulfillmentCodeHook"
            THEN Returns(buildFulfillmentResponse(event, Msg("greeting", <<>>)))
        ELSE IF intentName = "ThankYouIntent"
            THEN Returns(buildFulfillmentResponse(event, Msg("goodbye", <<>>)))
        ELSE IF intentName = "DiningSuggestionsIntent"
                /\ invocationSource = "DialogCodeHook"
            THEN Returns(handleDialogValidation(event, intentSlots, clock))
        ELSE IF intentName = "DiningSuggestionsIntent"
                /\ invocationSource = "FulfillmentCodeHook"
            THEN IF ~Truthy(getSlotValue(intentSlots, "Cuisine"))
                    THEN Returns(Thrown("TypeError"))
                 ELSE IF ~sqsQueueUrl
                    THEN [Returns(buildFulfillmentResponse(event, Msg("notConfigured", <<>>)))
                            EXCEPT !.sendOutcome = "unconfigured"]
                 ELSE [turn EXCEPT !.pc = "send", !.sends = 1,
                                   !.sqsMessage = sqsMessage(intentSlots)]
        ELSE Returns(buildFulfillmentResponse(event, Msg("help", <<>>)))

\* The handler, from its call to its first await or its return: the record
\* of the invocation. sqsQueueUrl is process.env.SQS_QUEUE_URL, set or not.
Dispatch(event, clock, sqsQueueUrl) ==
    LET intentName == IntentNameOf(event)
        invocationSource == event.invocationSource
        intentSlots == SlotsOf(event)
        turn == [NoTurn EXCEPT !.event = event]
        Returns(result) ==
            [turn EXCEPT !.pc = "done", !.response = HandlerCatch(event, result)]
    IN  IF intentName = "GreetingIntent"
            THEN Returns(buildFulfillmentResponse(event, Msg("greeting", <<>>)))
        ELSE IF intentName = "ThankYouIntent"
            THEN Returns(buildFulfillmentResponse(event, Msg("goodbye", <<>>)))
        ELSE IF intentName = "DiningSuggestionsIntent"
                /\ invocationSource = "DialogCodeHook"
            THEN Returns(handleDialogValidation(event, intentSlots, clock))
        ELSE IF intentName = "DiningSuggestionsIntent"
                /\ invocationSource = "FulfillmentCodeHook"
            THEN IF ~Truthy(getSlotValue(intentSlots, "Cuisine"))
                    THEN Returns(Thrown("TypeError"))
                 ELSE IF ~sqsQueueUrl
                    THEN [Returns(buildFulfillmentResponse(event, Msg("notConfigured", <<>>)))
                            EXCEPT !.sendOutcome = "unconfigured"]
                 ELSE [turn EXCEPT !.pc = "send", !.sends = 1,
                                   !.sqsMessage = sqsMessage(intentSlots)]
        ELSE Returns(buildFulfillmentResponse(event, Msg("help", <<>>)))

\* The LF2 side does not move while LF1 runs.
WorkerIdle == UNCHANGED <<index, store, slots, worker, now, notified>>

\* Mutant: the handler takes every turn of the dining intent for a
\* request-complete turn.
HandlerCalledMut ==
    \E event \in Events, sqsQueueUrl \in BOOLEAN :
        /\ lf1.pc = "idle"
        /\ \E m \in Items : queue[m] = "unsent"
        /\ lf1' = [Dispatch([event EXCEPT !.invocationSource = "FulfillmentCodeHook"],
                            now, sqsQueueUrl)
                        EXCEPT !.event = event]
        /\ UNCHANGED <<queue, body, userState>>
        /\ WorkerIdle

\* Lex calls the handler with an event; the handler runs to its first await
\* or to its return. Turns are explored until the queue has taken every
\* item of the run.
HandlerCalled ==
    \E event \in Events, sqsQueueUrl \in BOOLEAN :
        /\ lf1.pc = "idle"
        /\ \E m \in Items : queue[m] = "unsent"
        /\ lf1' = Dispatch(event, now, sqsQueueUrl)
        /\ UNCHANGED <<queue, body, userState>>
        /\ WorkerIdle

\* The item written by saveUserState.
UserStateItem(event, clock) ==
    [Email |-> getSlotValue(SlotsOf(event), "Email"),
     Location |-> FulfilledLocation(SlotsOf(event)),
     Cuisine |-> getSlotValue(SlotsOf(event), "Cuisine"),
     NumberOfPeople |-> getSlotValue(SlotsOf(event), "NumberOfPeople"),
     DiningDate |-> getSlotValue(SlotsOf(event), "DiningDate"),
     DiningTime |-> getSlotValue(SlotsOf(event), "DiningTime"),
     LastSearchTimestamp |-> clock]

\* What JSON.stringify writes of a member and JSON.parse reads back: a
\* function-valued member is left out (undefined to the reader), an object
\* without own members is written as {}, null and strings are kept.
EmptyObject == <<"{}">>

JsonValue(v) ==
    IF v = ObjectFunction THEN Null
    ELSE IF v = ObjectPrototype THEN EmptyObject
    ELSE v

\* MessageBody: JSON.stringify(sqsMessage), as its reader parses it.
MessageBody(message) == [f \in DOMAIN message |-> JsonValue(message[f])]

\* sqsClient.send(SendMessageCommand) returns: the item is on the queue, and
\* the handler goes on to saveUserState, up to its await.
SendReturns ==
    \E m \in Items :
        /\ lf1.pc = "send"
        /\ queue[m] = "unsent"
        /\ \A k \in Items : k < m => queue[k] # "unsent"
        /\ queue' = [queue EXCEPT ![m] = "visible"]
        /\ body' = [body EXCEPT ![m] = MessageBody(lf1.sqsMessage)]
        /\ lf1' = [lf1 EXCEPT !.pc = "save", !.saves = @ + 1,
                               !.sendOutcome = "returned"]
        /\ UNCHANGED userState
        /\ WorkerIdle

\* Mutant: the catch goes on to save the preferences.
SendFailedMut(turn) ==
    [turn EXCEPT !.pc = "save", !.saves = @ + 1, !.sendOutcome = "raised"]

\* The catch of handleFulfillment: log and apologize.
SendFailed(turn) ==
    [turn EXCEPT !.pc = "done", !.sendOutcome = "raised",
                 !.response = HandlerCatch(turn.event,
                     buildFulfillmentResponse(turn.event, Msg("tryAgain", <<>>)))]

\* sqsClient.send raises (the queue did not take the message): the catch of
\* handleFulfillment answers.
SendThrows ==
    /\ lf1.pc = "send"
    /\ lf1' = SendFailed(lf1)
    /\ UNCHANGED <<queue, body, userState>>
    /\ WorkerIdle

\* Mutant: a failed save is reported to the user.
AfterSaveMut(turn, saved) ==
    [turn EXCEPT !.pc = "done",
                 !.response = HandlerCatch(turn.event,
                     buildFulfillmentResponse(turn.event,
                         IF saved THEN Confirmation(SlotsOf(turn.event))
                                  ELSE Msg("tryAgain", <<>>)))]

\* saveUserState has returned, whether PutItem succeeded or its error was
\* caught: the handler answers with the confirmation.
AfterSave(turn, saved) ==
    [turn EXCEPT !.pc = "done",
                 !.response = HandlerCatch(turn.event,
                     buildFulfillmentResponse(turn.event,
                         Confirmation(SlotsOf(turn.event))))]

\* PutItem returns: the record keyed by the e-mail address is written or
\* overwritten. PutItem takes an attribute value { S: v } only when v is a
\* string.
SaveReturns ==
    LET item == UserStateItem(lf1.event, now)
    IN  /\ lf1.pc = "save"
        /\ IsString(item.Email) /\ IsString(item.Location) /\ IsString(item.DiningDate)
        /\ IsString(item.DiningTime)
        /\ userState' = {i \in userState : i.Email # item.Email} \cup {item}
        /\ lf1' = AfterSave(lf1, TRUE)
        /\ UNCHANGED <<queue, body>>
        /\ WorkerIdle

\* PutItem raises; saveUserState catches and logs.
SaveThrows ==
    /\ lf1.pc = "save"
    /\ lf1' = AfterSave(lf1, FALSE)
    /\ UNCHANGED <<queue, body, userState>>
    /\ WorkerIdle

\* The response (or the error) has gone back to Lex.
Respond ==
    /\ lf1.pc = "done"
    /\ lf1' = NoTurn
    /\ UNCHANGED <<queue, body, userState>>
    /\ WorkerIdle

NextDialog ==
    \/ HandlerCalled
    \/ SendReturns
    \/ SendThrows
    \/ SaveReturns
    \/ SaveThrows
    \/ Respond

\* LF1 alone: no LF2 invocation runs, and the run ends with the first
\* WorkItem that reaches the queue.
InitDialog ==
    /\ slots = {}
    /\ index = [c \in {"thai"} |-> <<>>]
    /\ store = [id \in IDs |-> "full"]
    /\ queue = [m \in DialogItems |-> "unsent"]
    /\ body = [m \in DialogItems |-> NoBody]
    /\ worker = [w \in Workers |-> Idle]
    /\ lf1 = NoTurn
    /\ userState = {}
    /\ now \in Clocks
    /\ notified = Untracked

DialogSpec == InitDialog /\ [][NextDialog]_vars

\* The same request submitted again. Complete, valid requests in several
\* spellings, with and without session attributes.
CompleteEvents ==
    {Event("DiningSuggestionsIntent", "FulfillmentCodeHook",
           [ValidSlots EXCEPT !["Location"] = l, !["NumberOfPeople"] = p], a) :
        l \in {Given(<<"N", "Y", "C">>), Given(<<"n", "e", "w", " ", "y", "o", "r", "k">>), Given(<<" ", "Q", "u", "e", "e", "n", "s", " ">>)},
        p \in {Given(<<"2">>), Given(<<"2", "0">>)},
        a \in {SomeAttrs, Null}}

\* Two WorkItems can reach the queue in a run of ResubmitSpec.
ResubmitItems == {1, 2}

\* Lex calls the handler in the request-complete phase with a complete
\* request.
RequestSubmitted ==
    \E event \in CompleteEvents, sqsQueueUrl \in BOOLEAN :
        /\ lf1.pc = "idle" /\ lf1.returned = Null
        /\ \E m \in Items : queue[m] = "unsent"
        /\ lf1' = Dispatch(event, now, sqsQueueUrl)
        /\ UNCHANGED <<queue, body, userState>>
        /\ WorkerIdle

\* Lex calls the handler again with the session state that the turn before
\* returned: its intent name, slots and session attributes.
Resubmitted ==
    \E sqsQueueUrl \in BOOLEAN :
        /\ lf1.pc = "idle" /\ lf1.returned # Null
        /\ lf1.returned.type = "Close"
        /\ \E m \in Items : queue[m] = "unsent"
        /\ lf1' = [Dispatch(Event(lf1.returned.name, "FulfillmentCodeHook",
                                  lf1.returned.slots, lf1.returned.sessionAttributes),
                            now, sqsQueueUrl)
                        EXCEPT !.returned = lf1.returned]
        /\ UNCHANGED <<queue, body, userState>>
        /\ WorkerIdle

\* The response has gone back to Lex, which keeps it.
Returned ==
    /\ lf1.pc = "done"
    /\ lf1' = [NoTurn EXCEPT !.returned = lf1.response]
    /\ UNCHANGED <<queue, body, userState>>
    /\ WorkerIdle

NextResubmit ==
    \/ RequestSubmitted
    \/ Resubmitted
    \/ SendReturns
    \/ SendThrows
    \/ SaveReturns
    \/ SaveThrows
    \/ Returned

InitResubmit ==
    /\ slots = {}
    /\ index = [c \in {"thai"} |-> <<>>]
    /\ store = [id \in IDs |-> "full"]
    /\ queue = [m \in ResubmitItems |-> "unsent"]
    /\ body = [m \in ResubmitItems |-> NoBody]
    /\ worker = [w \in Workers |-> Idle]
    /\ lf1 = NoTurn
    /\ userState = {}
    /\ now \in Clocks
    /\ notified = Untracked

ResubmitSpec == InitResubmit /\ [][NextResubmit]_vars

\* A conversation that Lex carries on by itself: the slots that a mid-dialog
\* turn returned are the slots of the next mid-dialog turn.
DialogEvents ==
    {e \in Events : /\ HasIntent(e)
                    /\ e.sessionState.intent.name = "DiningSuggestionsIntent"
                    /\ e.invocationSource = "DialogCodeHook"}

\* The first mid-dialog turn of the conversation.
DialogStarted ==
    \E event \in DialogEvents, sqsQueueUrl \in BOOLEAN :
        /\ lf1.pc = "idle" /\ lf1.returned = Null
        /\ lf1' = Dispatch(event, now, sqsQueueUrl)
        /\ UNCHANGED <<queue, body, userState>>
        /\ WorkerIdle

\* Lex calls the handler again in the dialog phase with the intent name,
\* slots and session attributes of the ElicitSlot response, the user having
\* added nothing.
FedBack ==
    \E sqsQueueUrl \in BOOLEAN :
        /\ lf1.pc = "idle" /\ lf1.returned # Null
        /\ lf1.returned.type = "ElicitSlot"
        /\ Len(lf1.asked) < MaxTurns
        /\ lf1' = [Dispatch(Event(lf1.returned.name, "DialogCodeHook",
                                  lf1.returned.slots, lf1.returned.sessionAttributes),
                            now, sqsQueueUrl)
                        EXCEPT !.returned = lf1.returned, !.asked = lf1.asked]
        /\ UNCHANGED <<queue, body, userState>>
        /\ WorkerIdle

\* The response has gone back to Lex, which keeps it; an ElicitSlot response
\* adds its slot to the slots asked for.
TurnReturned ==
    /\ lf1.pc = "done"
    /\ lf1' = [NoTurn EXCEPT
                !.returned = lf1.response,
                !.asked = IF lf1.response.type = "ElicitSlot"
                            THEN Append(lf1.asked, lf1.response.slotToElicit)
                            ELSE lf1.asked]
    /\ UNCHANGED <<queue, body, userState>>
    /\ WorkerIdle

\* Time passes between two turns: a later reading of the same day.
ClockTicks ==
    \E later \in Clocks :
        /\ lf1.pc = "idle"
        /\ later.localDay = now.localDay /\ later.utcDay = now.utcDay
        /\ \/ later.hours > now.hours
           \/ later.hours = now.hours /\ later.minutes > now.minutes
        /\ now' = later
        /\ UNCHANGED <<index, store, slots, queue, body, worker, lf1, userState, notified>>

NextFeedback ==
    \/ DialogStarted
    \/ FedBack
    \/ TurnReturned
    \/ ClockTicks

FeedbackSpec == InitDialog /\ [][NextFeedback]_vars

\* ------------------------------------------------------------ vocabulary
Done(w) == worker[w].pc = "done"

Received(w) == worker[w].message # NoMsg

Raised(w, site) == site \in worker[w].raised

Acknowledged(w) == queue[worker[w].message] = "removed"

Distinct(s) == \A i, j \in 1..Len(s) : i # j => s[i] # s[j]

Range(s) == {s[i] : i \in 1..Len(s)}

\* The search came back with no hit.
ZeroHits(w) == worker[w].searched /\ Len(worker[w].restaurantIds) = 0

\* The search came back with at least one hit.
SomeHits(w) == worker[w].searched /\ Len(worker[w].restaurantIds) >= 1

\* The i-th selected candidate has no record in the store.
Missing(w, i) == store[worker[w].selectedIds[i]] = "absent"

\* ------------------------------------------------------------------ C1
\* C1 (as claimed): an invocation that received a WorkItem has removed it
\* from the queue by the time it ends, whatever the search, the detail
\* lookups and the notification did.
C1_AcknowledgedBeforeEnd ==
    \A w \in Workers :
        (Done(w) /\ Received(w) /\ Parses(body[worker[w].message]))
            => Acknowledged(w)

\* ------------------------------------------------------------------ C2
\* C2 (as claimed): when the notification send raised, the invocation ends
\* with the item removed and a success result.
C2_EmailFailureAlwaysSuccess ==
    \A w \in Workers :
        (Done(w) /\ Raised(w, "email"))
            => (Acknowledged(w) /\ worker[w].statusCode = 200)

\* C2 (amended): when the notification send raised, the invocation still
\* issues the acknowledge, exactly once; it ends with the item removed and a
\* success result unless the acknowledge itself raised, and with a failure
\* result if it did.
C2_EmailFailureIsolated ==
    \A w \in Workers :
        Raised(w, "email") =>
            /\ worker[w].pc \in {"ack", "done"}
            /\ Done(w) =>
                /\ worker[w].acks = 1
                /\ IF Raised(w, "ack")
                        THEN worker[w].statusCode = 500
                        ELSE Acknowledged(w) /\ worker[w].statusCode = 200

C2_Witness ==
    \E w \in Workers :
        /\ Done(w) /\ Raised(w, "email") /\ ~Raised(w, "ack")
        /\ Acknowledged(w) /\ worker[w].statusCode = 200

\* ------------------------------------------------------------------ C3
\* C3: after a search with zero hits the invocation only acknowledges and
\* ends: the acknowledge is issued, no candidate is selected, no detail
\* lookup is started and sendEmailViaSES is never called.
C3_ZeroHitsAcknowledged ==
    \A w \in Workers :
        ZeroHits(w) =>
            /\ worker[w].pc \in {"ackNone", "done"}
            /\ worker[w].selectedIds = <<>>
            /\ worker[w].lookups = 0
            /\ worker[w].emails = 0
            /\ Done(w) => worker[w].acks = 1

C3_Witness ==
    \E w \in Workers :
        /\ ZeroHits(w) /\ Done(w) /\ Acknowledged(w)
        /\ worker[w].resultBody = "No restaurants found"

\* ------------------------------------------------------------------ C4
\* C4: an invocation issues the acknowledge at most once, and exactly once
\* when the search returned a hit and every detail lookup returned.
C4_AckAtMostOnce ==
    \A w \in Workers :
        /\ worker[w].acks <= 1
        /\ (Done(w) /\ SomeHits(w) /\ ~Raised(w, "lookup")) => worker[w].acks = 1

C4_Witness ==
    \E w \in Workers :
        /\ Done(w) /\ SomeHits(w) /\ ~Raised(w, "lookup")
        /\ Len(worker[w].restaurantIds) = 4 /\ worker[w].acks = 1

C6_NoSharedItem ==
    \A w1, w2 \in Workers : \A m \in Items :
        w1 # w2 => ~(Holds(w1, m) /\ Holds(w2, m))

\* C6 (amended): an item is held by two invocations at the same time only
\* if its visibility timeout elapsed while an invocation holding it was
\* still running; until then the item a running invocation holds is not
\* receivable by any other invocation.
C6_NoSharedItemWithinTimeout ==
    \A w1 \in Workers : \A m \in Items :
        (Holds(w1, m) /\ ~worker[w1].lapsed) =>
            /\ queue[m] # "visible"
            /\ \A w2 \in Workers \ {w1} : Holds(w2, m) => worker[w2].lapsed

C6_Witness ==
    \E w1, w2 \in Workers : \E m1, m2 \in Items :
        /\ w1 # w2 /\ m1 # m2
        /\ Holds(w1, m1) /\ Holds(w2, m2)
        /\ ~worker[w1].lapsed /\ ~worker[w2].lapsed

\* ------------------------------------------------------------------ C7
\* C7 (as claimed): every item that is on the queue is eventually removed.
C7_EventuallyRemoved ==
    \A m \in MsgIds : (queue[m] = "visible") ~> (queue[m] = "removed")

\* ------------------------------------------------------------------ C8
\* C8: no error leaves the handler: an invocation that has ended has
\* returned 200 or 500; an error of the receive, the parsing, the search, a
\* detail lookup or the acknowledge gives 500; and the item of a failed
\* invocation is still on the queue, hidden until its timeout or receivable.
C8_AlwaysReturnsResult ==
    \A w \in Workers :
        /\ worker[w].pc # "crashed"
        /\ Done(w) =>
            /\ worker[w].statusCode \in {200, 500}
            /\ (worker[w].raised \ {"email"} # {}) => worker[w].statusCode = 500
            /\ (worker[w].statusCode = 500 /\ Received(w))
                    => queue[worker[w].message] \in {"inflight", "visible"}

C8_Witness ==
    \E w \in Workers :
        /\ Done(w) /\ worker[w].statusCode = 500
        /\ Raised(w, "lookup")
        /\ queue[worker[w].message] = "visible"

\* ------------------------------------------------------------------ C9
\* C9: the step in which the receive returns no message ends the invocation
\* with status 200, having searched nothing, looked up nothing, sent nothing
\* and acknowledged nothing, and it leaves queue, index and store unchanged
\* (as does the start of the invocation before it).
C9_NoMessageNoEffect ==
    [][\A w \in Workers :
        /\ (worker[w].pc = "idle" /\ worker'[w].pc # "idle")
                => UNCHANGED <<queue, body, index, store>>
        /\ (/\ worker[w].pc = "receive"
            /\ worker'[w].pc # "receive"
            /\ worker'[w].message = NoMsg
            /\ worker'[w].raised = {})
                => /\ worker'[w].pc = "done"
                   /\ worker'[w].statusCode = 200
                   /\ ~worker'[w].searched
                   /\ worker'[w].lookups = 0
                   /\ worker'[w].emails = 0
                   /\ worker'[w].acks = 0
                   /\ UNCHANGED <<queue, body, index, store>>]_vars

C9_Witness ==
    \E w \in Workers :
        /\ Done(w) /\ ~Received(w) /\ worker[w].raised = {}
        /\ worker[w].statusCode = 200
        /\ worker[w].resultBody = "No messages to process"
        /\ \E m \in Items : queue[m] = "inflight"

C11_ListFollowsSelectionOrder ==
    \A w \in Workers :
        worker[w].emailed # <<>> =>
            /\ Len(worker[w].emailed) = Len(worker[w].selectedIds)
            /\ \A i \in 1..Len(worker[w].selectedIds) :
                LET d == getRestaurantFromDynamoDB(store, worker[w].selectedIds[i])
                IN  worker[w].emailed[i] =
                        [ordinal |-> i, name |-> d.name, address |-> d.address]

C11_Witness ==
    \E w \in Workers :
        /\ worker[w].reordered
        /\ Len(worker[w].emailed) = 3
        /\ Distinct(worker[w].selectedIds)
        /\ \A i \in 1..3 : store[worker[w].selectedIds[i]] = "full"
        /\ worker[w].pc = "done" /\ worker[w].statusCode = 200

\* ------------------------------------------------------- LF1 vocabulary
\* The handler has returned (or thrown) and Lex has not yet taken the answer.
Answered == lf1.pc = "done"

DiningTurn(source) ==
    /\ lf1.pc # "idle"
    /\ HasIntent(lf1.event)
    /\ lf1.event.sessionState.intent.name = "DiningSuggestionsIntent"
    /\ lf1.event.invocationSource = source

MidDialog == Answered /\ DiningTurn("DialogCodeHook")

\* The value of a slot in the event of the turn.
Present(n) == Truthy(getSlotValue(SlotsOf(lf1.event), n))

\* The slot at place i of the validation order is present and fails its check.
Invalid(i) == CheckSlot(SlotOrder[i], SlotsOf(lf1.event), now) # Null

\* ----------------------------------------------------------------- C12
\* C12: a mid-dialog turn of the dining intent in which some present slot is
\* invalid answers ElicitSlot, in state InProgress, for the first invalid
\* slot in the order Location, Cuisine, NumberOfPeople, DiningDate,
\* DiningTime, Email, with the message of that slot's check; no later slot is
\* the one elicited.
C12_FirstInvalidElicited ==
    MidDialog =>
        \A i \in 1..6 :
            (Invalid(i) /\ \A j \in 1..(i - 1) : ~Invalid(j)) =>
                /\ lf1.response.type = "ElicitSlot"
                /\ lf1.response.slotToElicit = SlotOrder[i]
                /\ lf1.response.state = "InProgress"
                /\ lf1.response.message = CheckSlot(SlotOrder[i], SlotsOf(lf1.event), now)

C12_Witness ==
    /\ MidDialog
    /\ ~Invalid(1) /\ Present("Location")
    /\ Invalid(2) /\ Invalid(5) /\ Invalid(6)
    /\ lf1.response.type = "ElicitSlot"
    /\ lf1.response.slotToElicit = "Cuisine"

RequestComplete == DiningTurn("FulfillmentCodeHook")

AllPresent == \A n \in SlotNames : Present(n)

\* sqsClient.send has returned in this turn.
Sent == lf1.sendOutcome = "returned"

\* The items that are on the queue.
OnQueue == {m \in Items : queue[m] # "unsent"}

CanonicalLocations == {e[2] : e \in LOCATION_ALIASES}

\* The fields of the WorkItem that are not normalized are the supplied ones,
\* and the turn, once answered, closes with the confirmation.
EnqueuedAsSupplied(item) ==
    /\ Cardinality(OnQueue) = 1 /\ lf1.sends = 1
    /\ item.Cuisine = trim(LowerOf(getSlotValue(SlotsOf(lf1.event), "Cuisine")))
    /\ item.NumberOfPeople = getSlotValue(SlotsOf(lf1.event), "NumberOfPeople")
    /\ item.DiningDate = getSlotValue(SlotsOf(lf1.event), "DiningDate")
    /\ item.DiningTime = getSlotValue(SlotsOf(lf1.event), "DiningTime")
    /\ item.Email = getSlotValue(SlotsOf(lf1.event), "Email")
    /\ Answered =>
        /\ lf1.response.type = "Close"
        /\ lf1.response.message.template = "allSet"
        /\ SubSeq(lf1.response.message.args, 2, 5) =
                <<item.NumberOfPeople, item.DiningDate, item.DiningTime, item.Email>>

C16_SubmitFailureApologizes ==
    (RequestComplete /\ Answered /\ lf1.sendOutcome \in {"unconfigured", "raised"}) =>
        /\ lf1.response.type = "Close"
        /\ lf1.response.message.template =
                (IF lf1.sendOutcome = "unconfigured" THEN "notConfigured" ELSE "tryAgain")
        /\ lf1.sends = (IF lf1.sendOutcome = "unconfigured" THEN 0 ELSE 1)
        /\ OnQueue = {}
        /\ lf1.saves = 0
        /\ userState = {}

C16_Witness ==
    /\ RequestComplete /\ Answered /\ AllPresent
    /\ lf1.sendOutcome = "raised"
    /\ lf1.response.type = "Close"
    /\ lf1.response.message.template = "tryAgain"
    /\ OnQueue = {} /\ userState = {}

\* ----------------------------------------------------------------- C17
\* C17: saveUserState is called only once the send has returned; whether its
\* PutItem then succeeds or raises, the turn answers with the same
\* confirmation Close, and the WorkItem it enqueued is still on the queue.
C17_SaveFailureSwallowed ==
    /\ lf1.saves > 0 => (Sent /\ lf1.saves = 1 /\ OnQueue # {})
    /\ (RequestComplete /\ Sent) =>
        /\ lf1.pc \in {"save", "done"}
        /\ \A m \in OnQueue : queue[m] = "visible" /\ body[m] = MessageBody(lf1.sqsMessage)
        /\ Answered =>
            lf1.response =
                buildFulfillmentResponse(lf1.event, Confirmation(SlotsOf(lf1.event)))

\* The write failed although every attribute was there to be written.
C17_Witness ==
    /\ RequestComplete /\ Sent /\ Answered /\ AllPresent
    /\ userState = {}
    /\ lf1.response.type = "Close"
    /\ lf1.response.message.template = "allSet"
    /\ \E m \in OnQueue : queue[m] = "visible"

\* ----------------------------------------------------------------- C18
\* C18 (as claimed): whatever the event, the handler hands a response back
\* to its caller and throws nothing; what was thrown inside is answered with
\* the apology Close.
C18_NeverRaises ==
    Answered =>
        /\ lf1.response.type \in {"Close", "ElicitSlot", "Delegate"}
        /\ (DiningTurn("FulfillmentCodeHook") /\ ~Present("Cuisine")) =>
                lf1.response.message.template = "oops"

\* ----------------------------------------------------------------- C19
\* C19: an event that names an intent other than DiningSuggestionsIntent, or
\* names it with an invocation source that is neither DialogCodeHook nor
\* FulfillmentCodeHook, is answered Close with the message that belongs to
\* the intent name alone (greeting, goodbye, or help for any other name),
\* whatever the slots and the invocation source; nothing is sent or saved.
C19_CannedClose ==
    (Answered /\ HasIntent(lf1.event)
        /\ ~DiningTurn("DialogCodeHook") /\ ~DiningTurn("FulfillmentCodeHook")) =>
        LET name == lf1.event.sessionState.intent.name
        IN  /\ lf1.response.type = "Close"
            /\ lf1.response.state = "Fulfilled"
            /\ lf1.response.message =
                    Msg(CASE name = "GreetingIntent" -> "greeting"
                          [] name = "ThankYouIntent" -> "goodbye"
                          [] OTHER -> "help", <<>>)
            /\ lf1.sends = 0 /\ lf1.saves = 0

C19_Witness ==
    /\ Answered /\ HasIntent(lf1.event)
    /\ lf1.event.sessionState.intent.name = "GreetingIntent"
    /\ lf1.event.invocationSource = "FulfillmentCodeHook"
    /\ Present("Cuisine") /\ Invalid(6)
    /\ lf1.response.type = "Close"
    /\ lf1.response.message.template = "greeting"

\* ----------------------------------------------------------------- C20
\* C20 (as claimed): every WorkItem that LF1 has put on the queue has all six
\* fields, a canonical location, one of the six cuisines in lower case, a
\* party size from 1 to 20, a date from today to today + 90, and a time and
\* an e-mail address that pass their checks.
C20_QueueHoldsValidRequests ==
    \A m \in OnQueue :
        LET item == body[m]
        IN  /\ Truthy(item.Location) /\ Truthy(item.Cuisine)
            /\ Truthy(item.NumberOfPeople) /\ Truthy(item.DiningDate)
            /\ Truthy(item.DiningTime) /\ Truthy(item.Email)
            /\ item.Location \in CanonicalLocations
            /\ item.Cuisine \in VALID_CUISINES
            /\ CheckNumberOfPeople(item.NumberOfPeople) = Null
            /\ CheckDiningDate(item.DiningDate, now) = Null
            /\ CheckDiningTime(item.DiningTime, item.DiningDate, now) = Null
            /\ CheckEmail(item.Email) = Null

\* ----------------------------------------------------------------- C21
\* Every slot of the turn is present and passes its check.
CompleteAndValid == AllPresent /\ \A i \in 1..6 : ~Invalid(i)

\* C21: a request-complete turn with a complete, valid set of slots answers
\* Close with the slots exactly as received; the turn that follows on the
\* returned slots answers Close again, with the slots the first turn
\* returned.
C21_ResubmitKeepsSlots ==
    (Answered /\ RequestComplete /\ CompleteAndValid) =>
        /\ lf1.response.type = "Close"
        /\ lf1.response.slots = lf1.event.sessionState.intent.slots
        /\ lf1.returned # Null =>
                /\ lf1.returned.type = "Close"
                /\ lf1.event.sessionState.intent.slots = lf1.returned.slots
                /\ lf1.response.slots = lf1.returned.slots

\* The second turn of a request whose first turn was enqueued and confirmed.
C21_Witness ==
    /\ Answered /\ RequestComplete /\ CompleteAndValid
    /\ lf1.returned # Null
    /\ lf1.returned.message.template = "allSet"
    /\ lf1.response.type = "Close"
    /\ lf1.response.slots = lf1.returned.slots
    /\ getSlotValue(lf1.response.slots, "Location") = <<"n", "e", "w", " ", "y", "o", "r", "k">>
    /\ Cardinality(OnQueue) = 2

\* ----------------------------------------------------------------- C22
\* A mid-dialog turn in which the slots before place i of the validation
\* order are absent or pass, so that the check of place i is reached.
Reached(i) == MidDialog /\ \A j \in 1..(i - 1) : ~Invalid(j)

\* The turn re-elicits the slot named n.
Elicited(n) == lf1.response.type = "ElicitSlot" /\ lf1.response.slotToElicit = n

\* The value of the slot named n in the event of the turn.
Supplied(n) == getSlotValue(SlotsOf(lf1.event), n)

\* s is the numeral of an integer: an optional sign, then digits only.
IsNumeral(s) ==
    LET d == IF s # <<>> /\ s[1] \in {"+", "-"} THEN Tail(s) ELSE s
    IN  d # <<>> /\ \A i \in 1..Len(d) : IsDigit(d[i])

\* The integer that the numeral s denotes.
NumeralValue(s) ==
    IF s[1] = "-" THEN 0 - DigitsValue(Tail(s))
    ELSE IF s[1] = "+" THEN DigitsValue(Tail(s))
    ELSE DigitsValue(s)

\* C22: when the party size supplied is the numeral of an integer n and its
\* check is reached, the slot is accepted if and only if 1 <= n <= 20; it is
\* re-elicited with the "enter a number" message when n < 1 and with the
\* "large party" message when n > 20.
C22_PartySizeRange ==
    (Reached(3) /\ Present("NumberOfPeople") /\ IsNumeral(Supplied("NumberOfPeople"))) =>
        LET n == NumeralValue(Supplied("NumberOfPeople"))
        IN  /\ Elicited("NumberOfPeople") <=> ~(1 <= n /\ n <= 20)
            /\ n < 1 => lf1.response.message = Msg("badNumber", <<>>)
            /\ n > 20 => lf1.response.message = Msg("tooMany", <<>>)

\* A party of exactly twenty is let through.
C22_Witness ==
    /\ Reached(3)
    /\ Supplied("NumberOfPeople") = <<"2", "0">>
    /\ lf1.response.type = "Delegate"

\* ----------------------------------------------------------------- C23
\* The calendar day that the wall clock of the process shows.
Today == now.localDay

\* C23: when the date supplied is a calendar date d and its check is
\* reached, the slot is accepted if and only if today <= d <= today + 90,
\* both ends included, today being the day the wall clock shows when the
\* turn is validated.
C23_DateWindow ==
    (Reached(4) /\ Present("DiningDate") /\ IsIsoDate(Supplied("DiningDate"))) =>
        LET d == Supplied("DiningDate")[2]
        IN  Elicited("DiningDate") <=> ~(Today <= d /\ d <= Today + 90)

\* The ninetieth day from today is let through, where the local day is not
\* the day of UTC.
C23_Witness ==
    /\ Reached(4)
    /\ Supplied("DiningDate") = IsoDate(Today + 90)
    /\ now.utcDay # Today
    /\ lf1.response.type = "Delegate"

\* ----------------------------------------------------------------- C24
\* The hour and the minute that a time of the form HH:MM names.
HourOf(time) == DigitsValue(SubSeq(time, 1, 2))

MinuteOf(time) == DigitsValue(SubSeq(time, 4, 5))

\* The time is later than the hour and minute the wall clock shows.
LaterThanNow(time) ==
    \/ HourOf(time) > now.hours
    \/ HourOf(time) = now.hours /\ MinuteOf(time) > now.minutes

\* The time supplied has the form HH:MM and its hour is within the opening
\* hours, and its check is reached.
TimeInHours ==
    /\ Reached(5) /\ Present("DiningTime")
    /\ timeRegex(Supplied("DiningTime"))
    /\ HourOf(Supplied("DiningTime")) >= 6 /\ HourOf(Supplied("DiningTime")) <= 23

\* C24 (as claimed): when the date supplied is today, a time whose hour is in
\* range is accepted if and only if it is strictly later than the hour and
\* minute of the wall clock; a time equal to the current minute is rejected.
C24_StrictlyLaterToday ==
    (TimeInHours /\ Supplied("DiningDate") = IsoDate(Today)) =>
        (~Elicited("DiningTime") <=> LaterThanNow(Supplied("DiningTime")))

\* ----------------------------------------------------------------- C28
\* C28 (as claimed): the day the time check takes for today is the day the
\* date check takes for today: a time in the opening hours that is not later
\* than the wall clock is rejected when the date supplied is the first day
\* the date check accepts, and for no other date.
C28_SameToday ==
    (TimeInHours /\ Present("DiningDate") /\ ~LaterThanNow(Supplied("DiningTime"))) =>
        (Elicited("DiningTime") <=> Supplied("DiningDate") = IsoDate(Today))

\* ----------------------------------------------------------------- C25
\* The minute of the day that a time of the form HH:MM names.
MinuteOfDay(time) == 60 * HourOf(time) + MinuteOf(time)

\* The time supplied was looked at and not re-elicited.
TimeAccepted == Reached(5) /\ Present("DiningTime") /\ ~Elicited("DiningTime")

\* C25 (as claimed): a time is accepted only if it lies within
\* [06:00, 23:00].
C25_WithinSixToTwentyThree ==
    TimeAccepted =>
        /\ timeRegex(Supplied("DiningTime"))
        /\ MinuteOfDay(Supplied("DiningTime")) >= 60 * 6
        /\ MinuteOfDay(Supplied("DiningTime")) <= 60 * 23

\* C25 (amended): a time is accepted only if its hour lies within 6..23,
\* that is, the time within [06:00, 23:59]; a time of the form HH:MM whose
\* hour is below 6 or above 23 is re-elicited with the opening hours.
C25_HourWithinSixToTwentyThree ==
    /\ TimeAccepted =>
            /\ timeRegex(Supplied("DiningTime"))
            /\ HourOf(Supplied("DiningTime")) >= 6
            /\ HourOf(Supplied("DiningTime")) <= 23
    /\ (Reached(5) /\ Present("DiningTime") /\ timeRegex(Supplied("DiningTime"))
            /\ (HourOf(Supplied("DiningTime")) < 6 \/ HourOf(Supplied("DiningTime")) > 23)) =>
            /\ Elicited("DiningTime")
            /\ lf1.response.message = Msg("closedHours", <<>>)

\* Half past eleven in the evening is let through.
C25_Witness ==
    /\ TimeAccepted
    /\ Supplied("DiningTime") = <<"2", "3", ":", "3", "0">>
    /\ lf1.response.type = "Delegate"

\* ----------------------------------------------------------------- C27
\* C27 (as claimed): a time is accepted only if it is a time of the 24-hour
\* clock written HH:MM: two digits, a colon, two digits, the hour at most 23
\* and the minute at most 59.
C27_RealClockTime ==
    TimeAccepted =>
        /\ timeRegex(Supplied("DiningTime"))
        /\ HourOf(Supplied("DiningTime")) <= 23
        /\ MinuteOf(Supplied("DiningTime")) <= 59

\* ----------------------------------------------------------------- C26
\* The keys of the alias table.
AliasKeys == {e[1] : e \in LOCATION_ALIASES}

\* C26 (as claimed): a location supplied mid-dialog is accepted if and only
\* if its lower-cased, trimmed form is a key of the alias table, and is then
\* normalized to the canonical value of that key: "new york", "NYC" and "ny"
\* give "manhattan", "Brooklyn" gives "brooklyn", "Paris" gives nothing.
C26_AcceptsAliasesOnly ==
    /\ (MidDialog /\ Present("Location")) =>
            /\ ~Elicited("Location") <=> trim(LowerOf(Supplied("Location"))) \in AliasKeys
            /\ ~Elicited("Location") =>
                    normalizeLocation(Supplied("Location")) \in CanonicalLocations
    /\ normalizeLocation(<<"n", "e", "w", " ", "y", "o", "r", "k">>) = <<"m", "a", "n", "h", "a", "t", "t", "a", "n">>
    /\ normalizeLocation(<<"N", "Y", "C">>) = <<"m", "a", "n", "h", "a", "t", "t", "a", "n">>
    /\ normalizeLocation(<<"n", "y">>) = <<"m", "a", "n", "h", "a", "t", "t", "a", "n">>
    /\ normalizeLocation(<<"B", "r", "o", "o", "k", "l", "y", "n">>) = <<"b", "r", "o", "o", "k", "l", "y", "n">>
    /\ normalizeLocation(<<"P", "a", "r", "i", "s">>) = Null

\* ----------------------------------------------------------------- C29
\* The items whose place on the queue a step changes.
Touched == {m \in Items : queue'[m] # queue[m]}

\* The pcs of an invocation between its start and its result.
Running == {"receive", "search", "lookup", "email", "ackNone", "ack"}

\* The step is one of invocation w: an awaited call of w returns or raises.
Stepped(w) ==
    /\ worker[w].pc \in Running
    /\ (worker'[w].pc # worker[w].pc \/ worker'[w].pending # worker[w].pending)

\* C29: a step of an invocation leaves every payload alone and changes the
\* place of at most one item: the one it is handed by its receive (visible
\* before, in flight after), or the one it holds, which its delete removes.
\* The invocation is handed an item only by its receive, once, and holds
\* that item until it returns.
C29_OnlyOwnItem ==
    [][\A w \in Workers :
            Stepped(w) =>
                /\ body' = body
                /\ queue' # queue =>
                    /\ Cardinality(Touched) = 1
                    /\ \A m \in Touched :
                        \/ /\ worker[w].pc = "receive" /\ worker[w].message = NoMsg
                           /\ worker'[w].message = m
                           /\ queue[m] = "visible" /\ queue'[m] = "inflight"
                        \/ /\ worker[w].pc \in {"ackNone", "ack"}
                           /\ worker[w].message = m
                           /\ queue'[m] = "removed"
                /\ worker'[w].message # worker[w].message =>
                        worker[w].pc = "receive" /\ worker[w].message = NoMsg]_vars

\* An invocation has removed its item while the other item is still queued.
C29_Witness ==
    \E w \in Workers :
        /\ Done(w) /\ Received(w) /\ worker[w].acks = 1
        /\ queue[worker[w].message] = "removed"
        /\ \E k \in Items \ {worker[w].message} :
                queue[k] \in {"visible", "inflight"} /\ body[k] # NoBody

\* ----------------------------------------------------------------- C30
\* The notification attempt of the invocation is over: sendEmailViaSES was
\* called and has returned or raised.
EmailAttempted(w) == worker[w].emails = 1 /\ worker[w].pc # "email"

\* Every detail lookup of the selected candidates was issued and has returned.
LookupsReturned(w) ==
    /\ worker[w].lookups = Len(worker[w].selectedIds)
    /\ worker[w].pending = {}
    /\ "lookup" \notin worker[w].raised
    /\ Len(worker[w].restaurants) = Len(worker[w].selectedIds)
    /\ \A i \in 1..Len(worker[w].restaurants) : worker[w].restaurants[i] # Unfetched

\* A delete of the received item has been issued (and may have finished).
AckIssued(w) == worker[w].pc \in {"ackNone", "ack"} \/ worker[w].acks > 0

\* C30: within one invocation the search follows the receive, the lookups
\* the search, the notification the lookups and the acknowledge the
\* notification: the notification is attempted at most once and only when
\* every lookup of the selected candidates has returned, and with a
\* non-empty hit set no acknowledge is issued before the attempt is over.
C30_StepOrder ==
    \A w \in Workers :
        /\ worker[w].searched => Received(w)
        /\ worker[w].lookups > 0 => worker[w].searched /\ SomeHits(w)
        /\ worker[w].emails <= 1
        /\ worker[w].emails = 1 => SomeHits(w) /\ LookupsReturned(w)
        /\ worker[w].pc = "email" => worker[w].emails = 1 /\ ~AckIssued(w)
        /\ (AckIssued(w) /\ Len(worker[w].restaurantIds) > 0) => EmailAttempted(w)
        /\ AckIssued(w) => worker[w].searched /\ worker[w].acks <= 1

\* Three lookups that returned out of order, then the notification, then
\* the acknowledge.
C30_Witness ==
    \E w \in Workers :
        /\ Done(w) /\ worker[w].statusCode = 200
        /\ Len(worker[w].selectedIds) = 3 /\ worker[w].reordered
        /\ LookupsReturned(w) /\ EmailAttempted(w)
        /\ worker[w].acks = 1

\* ----------------------------------------------------------------- C31
\* C31: a WorkItem for which the notification was attempted a second time
\* is one whose delete has failed or whose visibility timeout elapsed while
\* an invocation was holding it; as long as every delete succeeds and every
\* invocation finishes before that timeout, each WorkItem leads to at most
\* one attempt, however the invocations follow or overlap one another.
C31_AtMostOneNotification ==
    \A m \in DOMAIN notified :
        notified[m].attempts >= 2 => (notified[m].ackFailed \/ notified[m].lapsed)

\* Two attempts for one item after a failed delete, none of them made while
\* the timeout elapsed; the other item was notified once and removed.
C31_Witness ==
    \E m \in DOMAIN notified, k \in DOMAIN notified :
        /\ notified[m].attempts = 2 /\ notified[m].ackFailed /\ ~notified[m].lapsed
        /\ notified[k].attempts = 1 /\ ~notified[k].ackFailed /\ ~notified[k].lapsed
        /\ queue[k] = "removed"

\* ----------------------------------------------------------------- C32
\* The fields of a slot map that getSlotValue finds a value for.
PresentFields(intentSlots) ==
    {n \in SlotNames : Truthy(getSlotValue(intentSlots, n))}

\* C32: in a conversation whose mid-dialog turns are fed the slots that the
\* turn before returned, every turn answers ElicitSlot or Delegate; an
\* ElicitSlot response has one present field fewer than the turn was given,
\* the field it lacks being the one elicited; it elicits no field that an
\* earlier turn of the conversation elicited; and it is at most the sixth
\* ElicitSlot of the conversation, so that Delegate is answered after at most
\* six turns.
C32_FeedbackReachesDelegate ==
    MidDialog =>
        /\ lf1.response.type \in {"ElicitSlot", "Delegate"}
        /\ Len(lf1.asked) <= 6
        /\ lf1.response.type = "ElicitSlot" =>
                /\ PresentFields(lf1.response.slots)
                        = PresentFields(SlotsOf(lf1.event)) \ {lf1.response.slotToElicit}
                /\ Cardinality(PresentFields(lf1.response.slots))
                        < Cardinality(PresentFields(SlotsOf(lf1.event)))
                /\ \A i \in 1..Len(lf1.asked) : lf1.asked[i] # lf1.response.slotToElicit
                /\ Len(lf1.asked) < 6

\* Six fields, none of which passes its check: six ElicitSlot turns, one per
\* field in the validation order, and Delegate in the turn after them.
C32_Witness ==
    /\ MidDialog
    /\ lf1.response.type = "Delegate"
    /\ lf1.asked = SlotOrder
    /\ PresentFields(SlotsOf(lf1.event)) = {}

\* ----------------------------------------------------------------- C33
\* C33: a step that changes the queue, the payload of an item or the
\* user-state table is a step of a request-complete turn of the dining
\* intent, and no other turn (mid-dialog, greeting, thank-you, unrecognized
\* or malformed) comes to send a message or to save a record at all.
C33_OnlyRequestCompleteWrites ==
    [][/\ (queue' # queue \/ body' # body \/ userState' # userState)
            => DiningTurn("FulfillmentCodeHook")
       /\ (lf1'.pc \in {"send", "save"} \/ lf1'.sends + lf1'.saves > 0)
            => DiningTurn("FulfillmentCodeHook")']_vars

\* A request-complete turn has put its WorkItem on the queue and written the
\* record of its user.
C33_Witness ==
    /\ Answered /\ DiningTurn("FulfillmentCodeHook")
    /\ lf1.sends = 1 /\ lf1.saves = 1
    /\ \E m \in Items : queue[m] = "visible" /\ body[m] = MessageBody(lf1.sqsMessage)
    /\ \E item \in userState : item.Email = getSlotValue(SlotsOf(lf1.event), "Email")

====
